---- MODULE Spec2Model ----
(***************************************************************************)
(* A model of the asset-lifecycle part of tripup-server: the storage       *)
(* client (storage/aws.go), the credential resolution (getStorageClient)   *)
(* and the asset handlers of server.go (createAsset, patchAssets,          *)
(* createSingleAsset, deleteAssets), behind the OIDC middleware.           *)
(*                                                                         *)
(* Go strings that the code takes apart (storage locators, the             *)
(* Authorization header) are sequences of one-character strings, so that   *)
(* URL parsing, SplitN, Replace and slicing are computed and not assumed.  *)
(* Strings the code only tests for emptiness are TLA+ strings.             *)
(***************************************************************************)
EXTENDS Integers, Sequences, FiniteSets, TLC

VARIABLES
    serverStorageClient,  \* server.go:32  TRUE when a service-wide client was configured
    db,                   \* MetadataStore: asset id -> asset record or NoAsset
    objects,              \* object store: the set of existing [bucket, key]
    pc,                   \* position of the request being handled
    req,                  \* the request being handled
    client,               \* result of getStorageClient for this request
    idx,                  \* patchAssets: index of the next CREATE item
    resultData,           \* patchAssets: asset id -> size reported so far
    calls,                \* external calls issued for this request, in order
    response              \* what the caller received

vars == <<serverStorageClient, db, objects, pc, req, client, idx, resultData, calls, response>>

-----------------------------------------------------------------------------
(* Bounds of the model *)

\* longest CREATE list of a patch request
MaxBatch == 2
\* longest DELETE list of a patch request
MaxDelete == 1

-----------------------------------------------------------------------------
(* Strings as character sequences *)

Str_original == <<"_", "o", "r", "i", "g", "i", "n", "a", "l">>
Str_low == <<"_", "l", "o", "w">>
StrBEARER == <<"B", "E", "A", "R", "E", "R">>

\* a control character (below 0x20), which net/url refuses
Ctl == "\t"

Letters == {"a", "b", "c", "e", "g", "h", "i", "k", "l", "n", "o", "r", "s", "t", "w", "x",
            "A", "B", "E", "R"}

Digits == {"1", "2"}

\* strings.ToUpper on one character
UpperChar(c) ==
    CASE c = "a" -> "A"
      [] c = "b" -> "B"
      [] c = "e" -> "E"
      [] c = "r" -> "R"
      [] c = "s" -> "S"
      [] c = "i" -> "I"
      [] c = "c" -> "C"
      [] c = "t" -> "T"
      [] c = "k" -> "K"
      [] c = "n" -> "N"
      [] OTHER -> c

ToUpper(s) == [i \in 1..Len(s) |-> UpperChar(s[i])]

\* s[from:] in Go terms is Drop(s, from)
Drop(s, n) == SubSeq(s, n + 1, Len(s))

Take(s, n) == SubSeq(s, 1, n)

HasPrefix(s, p) == Len(s) >= Len(p) /\ Take(s, Len(p)) = p

\* strings.Index: the 0-based index of the first occurrence of p in s, or -1
RECURSIVE IndexFrom(_, _, _)
IndexFrom(s, p, i) ==
    IF i + Len(p) > Len(s) THEN -1
    ELSE IF SubSeq(s, i + 1, i + Len(p)) = p THEN i
    ELSE IndexFrom(s, p, i + 1)

Index(s, p) == IndexFrom(s, p, 0)

\* strings.Replace(s, old, new, -1), old non-empty: every non-overlapping
\* occurrence, left to right; i is the index of the first one
RECURSIVE ReplaceAt(_, _, _, _)
ReplaceAt(s, old, new, i) ==
    IF i < 0 THEN s
    ELSE Take(s, i) \o new
         \o ReplaceAt(Drop(s, i + Len(old)), old, new, Index(Drop(s, i + Len(old)), old))

Replace(s, old, new) == ReplaceAt(s, old, new, Index(s, old))

\* strings.SplitN(s, sep, n) for a one-character sep and n > 0; i is the
\* index of the first sep
RECURSIVE SplitAt(_, _, _, _)
SplitAt(s, sep, n, i) ==
    IF n = 1 \/ i < 0 THEN <<s>>
    ELSE <<Take(s, i)>> \o SplitAt(Drop(s, i + 1), sep, n - 1, Index(Drop(s, i + 1), <<sep>>))

SplitN(s, sep, n) == SplitAt(s, sep, n, Index(s, <<sep>>))

-----------------------------------------------------------------------------
(* net/url.Parse, for strings without '?', '#' and '%' *)

HasCtl(s) == \E i \in 1..Len(s) : s[i] = Ctl

\* the position of the first character that ends the scan of url.getScheme
\* (anything but a letter, or a digit after the first place), or 0
RECURSIVE SchemeStop(_, _)
SchemeStop(s, i) ==
    IF i > Len(s) THEN 0
    ELSE IF s[i] \notin Letters /\ (i = 1 \/ s[i] \notin Digits) THEN i
    ELSE SchemeStop(s, i + 1)

\* url.getScheme: [scheme, rest, err]
getSchemeAt(s, first) ==
    IF first = 0 THEN [scheme |-> <<>>, rest |-> s, err |-> FALSE]
    ELSE IF s[first] = ":" /\ first = 1
         THEN [scheme |-> <<>>, rest |-> <<>>, err |-> TRUE]
    ELSE IF s[first] = ":"
         THEN [scheme |-> Take(s, first - 1), rest |-> Drop(s, first), err |-> FALSE]
    ELSE [scheme |-> <<>>, rest |-> s, err |-> FALSE]

getScheme(s) == getSchemeAt(s, SchemeStop(s, 1))

\* the path that follows the authority of "//authority/path"
AfterAuthority(r, i) == IF i < 0 THEN <<>> ELSE Drop(r, i)

\* url.Parse once the scheme is taken off: [err, Path]
URLParseRest(s, scheme, rest) ==
    IF scheme = <<>> /\ ~HasPrefix(rest, <<"/">>) /\ Index(SplitN(rest, "/", 2)[1], <<":">>) >= 0
    THEN [err |-> TRUE, Path |-> <<>>]      \* first path segment cannot contain colon
    ELSE IF scheme # <<>> /\ ~HasPrefix(rest, <<"/">>)
    THEN [err |-> FALSE, Path |-> <<>>]     \* an opaque URL has no path
    ELSE IF HasPrefix(rest, <<"/", "/">>) /\ (scheme # <<>> \/ ~HasPrefix(rest, <<"/", "/", "/">>))
    THEN [err |-> FALSE, Path |-> AfterAuthority(Drop(rest, 2), Index(Drop(rest, 2), <<"/">>))]
    ELSE [err |-> FALSE, Path |-> rest]

URLParseScheme(s, sch) ==
    IF HasCtl(s) \/ sch.err THEN [err |-> TRUE, Path |-> <<>>]
    ELSE URLParseRest(s, sch.scheme, sch.rest)

\* url.Parse(s): [err, Path]
URLParse(s) == URLParseScheme(s, getScheme(s))

-----------------------------------------------------------------------------
(* The object store (S3) as the storage client sees it *)

Bucket1 == <<"b", "1">>
\* a container whose own name holds the substring "_original"
Bucket2 == <<"b">> \o Str_original
KeyOriginal == <<"a">> \o Str_original
KeyLow == <<"a">> \o Str_low
Host == <<"s", ":", "/", "/", "h">>

Locator(bucket, key) == Host \o <<"/">> \o bucket \o <<"/">> \o key

Buckets == {Bucket1, Bucket2}

Universe == {[bucket |-> b, key |-> k] : b \in Buckets, k \in {KeyOriginal, KeyLow}}

\* lengths a probe may report: below and above the 128 KB floor
Lengths == {131071, 131073}

\* what a HEAD request on an existing object may answer: a length, a negative
\* length (a malformed answer), or a fault of the service
Fault == -2
HeadAnswers == Lengths \cup {-1, Fault}

NoErr == ""

\* s3.HeadObject: err and ContentLength
HeadObject(objs, bucket, key, answer) ==
    IF [bucket |-> bucket, key |-> key] \notin objs
    THEN [err |-> "NotFound", len |-> 0]
    ELSE IF answer = Fault THEN [err |-> "RequestFailure", len |-> 0]
    ELSE [err |-> NoErr, len |-> answer]

\* one entry of the log of external calls
Call(op, bucket, keys, ids, n, ok) ==
    [op |-> op, bucket |-> bucket, keys |-> keys, ids |-> ids, n |-> n, ok |-> ok]

HeadCall(bucket, key, res) ==
    Call("HeadObject", bucket, <<key>>, <<>>, res.len, res.err = NoErr)

\* the result of a storage-client method: sizes, error, panic, requests issued
StorageResult(o, l, err, panicked, issued) ==
    [originalLength |-> o, lowLength |-> l, err |-> err, panicked |-> panicked,
     calls |-> issued]

\* a variant that appends the suffix instead of replacing it
KeyLowOf_Append(keyOriginal) == keyOriginal \o Str_low

\* the low-representation key derived from the original one (aws.go:65)
KeyLowOf(keyOriginal) == Replace(keyOriginal, Str_original, Str_low)

\* a variant without the check of aws.go:84-86 on the low length
FilesizesProbed_NoLowCheck(bucket, keyOriginal, keyLow, ro, rl) ==
    IF ro.err # NoErr
    THEN StorageResult(0, 0, ro.err, FALSE, <<HeadCall(bucket, keyOriginal, ro)>>)
    ELSE IF ro.len < 0
    THEN StorageResult(0, 0, "content length < 0 for original asset", FALSE,
                       <<HeadCall(bucket, keyOriginal, ro)>>)
    ELSE IF rl.err # NoErr
    THEN StorageResult(0, 0, rl.err, FALSE,
                       <<HeadCall(bucket, keyOriginal, ro), HeadCall(bucket, keyLow, rl)>>)
    ELSE StorageResult(ro.len, rl.len, NoErr, FALSE,
                       <<HeadCall(bucket, keyOriginal, ro), HeadCall(bucket, keyLow, rl)>>)

\* aws.go:67-91: the two probes and the checks on their answers
FilesizesProbed(bucket, keyOriginal, keyLow, ro, rl) ==
    IF ro.err # NoErr
    THEN StorageResult(0, 0, ro.err, FALSE, <<HeadCall(bucket, keyOriginal, ro)>>)
    ELSE IF ro.len < 0
    THEN StorageResult(0, 0, "content length < 0 for original asset", FALSE,
                       <<HeadCall(bucket, keyOriginal, ro)>>)
    ELSE IF rl.err # NoErr
    THEN StorageResult(0, 0, rl.err, FALSE,
                       <<HeadCall(bucket, keyOriginal, ro), HeadCall(bucket, keyLow, rl)>>)
    ELSE IF rl.len < 0
    THEN StorageResult(0, 0, "content length < 0 for low asset", FALSE,
                       <<HeadCall(bucket, keyOriginal, ro), HeadCall(bucket, keyLow, rl)>>)
    ELSE StorageResult(ro.len, rl.len, NoErr, FALSE,
                       <<HeadCall(bucket, keyOriginal, ro), HeadCall(bucket, keyLow, rl)>>)

\* aws.go:63-65 and the requests of aws.go:67-82
FilesizesKeys(objs, bucket, keyOriginal, keyLow, ansO, ansL) ==
    FilesizesProbed(bucket, keyOriginal, keyLow,
                    HeadObject(objs, bucket, keyOriginal, ansO),
                    HeadObject(objs, bucket, keyLow, ansL))

\* aws.go:62-65; path[1], path[2] on a path with fewer than three parts
\* panic (index out of range)
FilesizesPath(objs, path, ansO, ansL) ==
    IF Len(path) < 3 THEN StorageResult(0, 0, NoErr, TRUE, <<>>)
    ELSE FilesizesKeys(objs, path[2], path[3], KeyLowOf(path[3]), ansO, ansL)

FilesizesURL(objs, url, ansO, ansL) ==
    IF url.err THEN StorageResult(0, 0, "parse", FALSE, <<>>)
    ELSE FilesizesPath(objs, SplitN(url.Path, "/", 3), ansO, ansL)

\* s3Client.Filesizes; ansO and ansL are what the service answers to the two
\* HEAD requests when the objects exist
Filesizes(objs, originalURL, ansO, ansL) ==
    FilesizesURL(objs, URLParse(originalURL), ansO, ansL)

\* aws.go:103-113 for one locator whose URL is parsed, then the rest
RECURSIVE ParseLocators(_)
ParseOne(url, path, remotepaths) ==
    IF url.err THEN [err |-> "parse", panicked |-> FALSE, parsed |-> <<>>]
    ELSE IF Len(path) < 3 THEN [err |-> NoErr, panicked |-> TRUE, parsed |-> <<>>]
    ELSE [ParseLocators(Tail(remotepaths)) EXCEPT
            !.parsed = <<[bucket |-> path[2], key |-> path[3]]>> \o @]

ParseHead(url, remotepaths) == ParseOne(url, SplitN(url.Path, "/", 3), remotepaths)

\* the (bucket, key) of every locator, in order, up to the first one that
\* cannot be parsed (aws.go:98-114)
ParseLocators(remotepaths) ==
    IF remotepaths = <<>> THEN [err |-> NoErr, panicked |-> FALSE, parsed |-> <<>>]
    ELSE ParseHead(URLParse(Head(remotepaths)), remotepaths)

\* the keys appended to s3Objects[bucket], in order (aws.go:107-113)
KeysIn(mine) == [i \in 1..Len(mine) |-> mine[i].key]

\* a variant that does not group by bucket
KeysOf_All(parsed, bucket) == KeysIn(parsed)

KeysOf(parsed, bucket) == KeysIn(SelectSeq(parsed, LAMBDA o : o.bucket = bucket))

\* the orders in which Go may range over a map with these keys
Perms(S) == {p \in [1..Cardinality(S) -> S] : \A i, j \in 1..Cardinality(S) : p[i] = p[j] => i = j}

DeleteCall(bucket, keys, ok) == Call("DeleteObjects", bucket, keys, <<>>, 0, ok)

Gone(bucket, keys) == {[bucket |-> bucket, key |-> keys[i]] : i \in 1..Len(keys)}

\* the bulk requests of aws.go:116-128, over the buckets in the order `order`;
\* request number failAt fails (0: none does). [err, calls, objects]
RECURSIVE DeleteRequests(_, _, _, _, _)
\* a variant that goes on to the next bucket after a failed request
DeleteBucket_Continue(objs, parsed, order, failAt, n, bucket, keys) ==
    IF n = failAt
    THEN [DeleteRequests(objs, parsed, Tail(order), failAt, n + 1) EXCEPT
            !.err = "RequestFailure",
            !.calls = <<DeleteCall(bucket, keys, FALSE)>> \o @]
    ELSE [DeleteRequests(objs \ Gone(bucket, keys), parsed, Tail(order), failAt, n + 1) EXCEPT
            !.calls = <<DeleteCall(bucket, keys, TRUE)>> \o @]

DeleteBucket(objs, parsed, order, failAt, n, bucket, keys) ==
    IF n = failAt
    THEN [err |-> "RequestFailure", calls |-> <<DeleteCall(bucket, keys, FALSE)>>,
          objects |-> objs]
    ELSE [DeleteRequests(objs \ Gone(bucket, keys), parsed, Tail(order), failAt, n + 1) EXCEPT
            !.calls = <<DeleteCall(bucket, keys, TRUE)>> \o @]

DeleteRequests(objs, parsed, order, failAt, n) ==
    IF order = <<>> THEN [err |-> NoErr, calls |-> <<>>, objects |-> objs]
    ELSE DeleteBucket(objs, parsed, order, failAt, n, Head(order), KeysOf(parsed, Head(order)))

BucketsOf(parsed) == {parsed[i].bucket : i \in 1..Len(parsed)}

DeleteRequested(objs, p, r) ==
    IF p.err # NoErr \/ p.panicked
    THEN [err |-> p.err, panicked |-> p.panicked, calls |-> <<>>, objects |-> objs]
    ELSE [err |-> r.err, panicked |-> FALSE, calls |-> r.calls, objects |-> r.objects]

DeleteParsed(objs, p, perm, failAt) ==
    DeleteRequested(objs, p,
        DeleteRequests(objs, p.parsed,
                       SelectSeq(perm, LAMBDA b : b \in BucketsOf(p.parsed)), failAt, 1))

\* s3Client.Delete; `perm` orders all buckets, of which the map holds some
Delete(objs, remotepaths, perm, failAt) ==
    DeleteParsed(objs, ParseLocators(remotepaths), perm, failAt)

-----------------------------------------------------------------------------
(* The metadata store (package database, Neo4j) *)

NoAsset == [present |-> FALSE]
NoPath == <<"nil">>
NoSize == -1

Id1 == <<"i", "1">>
Id2 == <<"i", "2">>
AssetIDs == {Id1, Id2}
Uid == <<"u", "1">>

\* neoDB.CreateAsset: on success the asset is recorded with its paths and size
DBCreateAsset(d, uid, asset, type, totalsize, ok) ==
    IF ~ok THEN [err |-> "database", db |-> d]
    ELSE [err |-> NoErr,
          db |-> [d EXCEPT ![asset.AssetID] =
                    [present |-> TRUE, owner |-> uid, type |-> type,
                     remotePath |-> asset.RemotePath,
                     remotePathOrig |-> asset.RemotePathOrig,
                     totalsize |-> totalsize]]]

\* the locators of one asset record
PathsOf(a) ==
    IF a.remotePathOrig = NoPath THEN <<a.remotePath>>
    ELSE <<a.remotePath, a.remotePathOrig>>

\* the locators that belong to the listed assets; each asset is removed once
RECURSIVE RemoveAssets(_, _, _)
RemoveAssets(d, uid, ids) ==
    IF ids = <<>> THEN [locators |-> <<>>, db |-> d]
    ELSE IF d[Head(ids)].present /\ d[Head(ids)].owner = uid
    THEN [RemoveAssets([d EXCEPT ![Head(ids)] = NoAsset], uid, Tail(ids)) EXCEPT
            !.locators = PathsOf(d[Head(ids)]) \o @]
    ELSE RemoveAssets(d, uid, Tail(ids))

DBRemoved(r) == [err |-> NoErr, locators |-> r.locators, db |-> r.db]

\* neoDB.DeleteAssets: removes the owner's records and returns their locators
DBDeleteAssets(d, uid, ids, ok) ==
    IF ~ok THEN [err |-> "database", locators |-> <<>>, db |-> d]
    ELSE DBRemoved(RemoveAssets(d, uid, ids))

-----------------------------------------------------------------------------
(* server.go and auth/oidc.go *)

StatusOK == 200
StatusCreated == 201
StatusBadRequest == 400
StatusUnauthorized == 401
StatusInternalServerError == 500

\* the 128 KB minimum of server.go:861-867
MinLength == 131072

\* validateArgsNotZero: the index of the first empty string, or -1 (nil)
RECURSIVE validateArgsFrom(_, _)
validateArgsFrom(strings, index) ==
    IF index >= Len(strings) THEN -1
    ELSE IF Len(strings[index + 1]) = 0 THEN index
    ELSE validateArgsFrom(strings, index + 1)

validateArgsNotZero(strings) == validateArgsFrom(strings, 0)

\* invalidArgError.Error
invalidArgError(argNumber) ==
    CASE argNumber = 0 -> "Required argument number 0 is an empty string"
      [] argNumber = 1 -> "Required argument number 1 is an empty string"
      [] OTHER -> "Required argument number 2 is an empty string"

\* a variant that takes any header for a token
RawOIDCTokenFromHeader_AnyHeader(bearer) == [token |-> bearer, err |-> NoErr]

\* auth.RawOIDCTokenFromHeader
RawOIDCTokenFromHeader(bearer) ==
    IF Len(bearer) > 7 /\ ToUpper(Take(bearer, 6)) = StrBEARER
    THEN [token |-> Drop(bearer, 7), err |-> NoErr]
    ELSE [token |-> <<>>, err |-> "unable to extract token from request"]

\* storage.NewS3Client: the federation exchange, then a client bound to it
ExchangeCall(idToken, stsOk) ==
    Call("AssumeRoleWithWebIdentity", <<>>, <<>>, <<idToken>>, 0, stsOk)

NewS3Client(idToken, stsOk) ==
    IF ~stsOk
    THEN [kind |-> "none", token |-> <<>>, err |-> "sts", calls |-> <<ExchangeCall(idToken, stsOk)>>]
    ELSE [kind |-> "sts", token |-> idToken, err |-> NoErr,
          calls |-> <<ExchangeCall(idToken, stsOk)>>]

\* a variant that attempts the exchange whatever the extraction returned
getStorageClientToken_ExchangeAnyway(t, stsOk) == NewS3Client(t.token, stsOk)

getStorageClientToken(t, stsOk) ==
    IF t.err # NoErr THEN [kind |-> "none", token |-> <<>>, err |-> t.err, calls |-> <<>>]
    ELSE NewS3Client(t.token, stsOk)

\* a variant that asks for the caller's token before it looks at the
\* service-wide client
getStorageClient_TokenFirst(configured, header, stsOk) ==
    IF RawOIDCTokenFromHeader(header).err # NoErr
    THEN [kind |-> "none", token |-> <<>>,
          err |-> RawOIDCTokenFromHeader(header).err, calls |-> <<>>]
    ELSE IF configured THEN [kind |-> "server", token |-> <<>>, err |-> NoErr, calls |-> <<>>]
    ELSE NewS3Client(RawOIDCTokenFromHeader(header).token, stsOk)

\* getStorageClient
getStorageClient(configured, header, stsOk) ==
    IF configured THEN [kind |-> "server", token |-> <<>>, err |-> NoErr, calls |-> <<>>]
    ELSE getStorageClientToken(RawOIDCTokenFromHeader(header), stsOk)

\* a variant without the floor
FloorLength_NoFloor(length) == length

\* the floor of server.go:862-867 on one length
FloorLength(length) == IF length < MinLength THEN MinLength ELSE length

\* the type stored (server.go:876-878)
Photo == <<"p", "h", "o", "t", "o">>
TypeOf(asset) == IF validateArgsNotZero(<<asset.Type>>) # -1 THEN Photo ELSE asset.Type

\* createSingleAsset: [status, err, totalsize, panicked, calls, db]
SingleResult(status, err, totalsize, panicked, issued, d) ==
    [status |-> status, err |-> err, totalsize |-> totalsize, panicked |-> panicked,
     calls |-> issued, db |-> d]

CreateCall(asset, totalsize, dbOk) ==
    Call("CreateAsset", <<>>, <<>>, <<asset.AssetID>>, totalsize, dbOk)

\* server.go:880-884
createSingleAssetStored(asset, probes, totalsize, dbOk, d, stored) ==
    IF stored.err # NoErr
    THEN SingleResult(StatusInternalServerError, stored.err, NoSize, FALSE,
                      Append(probes, CreateCall(asset, totalsize, dbOk)), d)
    ELSE SingleResult(StatusCreated, NoErr, totalsize, FALSE,
                      Append(probes, CreateCall(asset, totalsize, dbOk)), stored.db)

createSingleAssetSized(asset, uid, d, probes, totalsize, dbOk) ==
    createSingleAssetStored(asset, probes, totalsize, dbOk, d,
                            DBCreateAsset(d, uid, asset, TypeOf(asset), totalsize, dbOk))

\* server.go:860-874, fs being what Filesizes returned
createSingleAssetProbed(asset, uid, d, fs, dbOk) ==
    IF fs.panicked
    THEN SingleResult(StatusInternalServerError, NoErr, NoSize, TRUE, fs.calls, d)
    ELSE IF fs.err # NoErr
    THEN SingleResult(StatusInternalServerError, fs.err, NoSize, FALSE, fs.calls, d)
    ELSE createSingleAssetSized(asset, uid, d, fs.calls,
                                FloorLength(fs.originalLength) + FloorLength(fs.lowLength), dbOk)

\* a variant that probes before it looks at the pixel dimensions
createSingleAssetValid_ProbeFirst(asset, uid, d, objs, ansO, ansL, dbOk) ==
    IF asset.RemotePathOrig # NoPath
    THEN createSingleAssetProbed(asset, uid, d,
                                 Filesizes(objs, asset.RemotePathOrig, ansO, ansL), dbOk)
    ELSE IF asset.PixelWidth = 0 \/ asset.PixelHeight = 0
    THEN SingleResult(StatusBadRequest, "One of the Int args has a value of 0",
                      NoSize, FALSE, <<>>, d)
    ELSE createSingleAssetSized(asset, uid, d, <<>>, NoSize, dbOk)

\* server.go:854-859
createSingleAssetValid(asset, uid, d, objs, ansO, ansL, dbOk) ==
    IF asset.PixelWidth = 0 \/ asset.PixelHeight = 0
    THEN SingleResult(StatusBadRequest, "One of the Int args has a value of 0",
                      NoSize, FALSE, <<>>, d)
    ELSE IF asset.RemotePathOrig # NoPath
    THEN createSingleAssetProbed(asset, uid, d,
                                 Filesizes(objs, asset.RemotePathOrig, ansO, ansL), dbOk)
    ELSE createSingleAssetSized(asset, uid, d, <<>>, NoSize, dbOk)

createSingleAssetArgs(asset, uid, d, objs, ansO, ansL, dbOk, bad) ==
    IF bad # -1
    THEN SingleResult(StatusBadRequest, invalidArgError(bad), NoSize, FALSE, <<>>, d)
    ELSE createSingleAssetValid(asset, uid, d, objs, ansO, ansL, dbOk)

createSingleAsset(asset, uid, d, objs, ansO, ansL, dbOk) ==
    createSingleAssetArgs(asset, uid, d, objs, ansO, ansL, dbOk,
                          validateArgsNotZero(<<asset.AssetID, asset.RemotePath, asset.Key>>))

\* deleteAssets: [status, err, panicked, calls, db, objects]
\* the DeleteAssets entry of the log carries the locators the store returned
DeleteAssetsCall(assetIDs, removed) ==
    Call("DeleteAssets", <<>>, removed.locators, assetIDs, 0, removed.err = NoErr)

\* a variant that reports success whatever storageClient.Delete returned
deleteAssetsDeleted_SwallowErr(assetIDs, removed, del) ==
    [status |-> StatusOK, err |-> NoErr, panicked |-> FALSE,
     calls |-> <<DeleteAssetsCall(assetIDs, removed)>> \o del.calls,
     db |-> removed.db, objects |-> del.objects]

\* server.go:897-902, del being what storageClient.Delete returned
deleteAssetsDeleted(assetIDs, removed, del) ==
    [status |-> IF del.panicked \/ del.err # NoErr THEN StatusInternalServerError ELSE StatusOK,
     err |-> del.err, panicked |-> del.panicked,
     calls |-> <<DeleteAssetsCall(assetIDs, removed)>> \o del.calls,
     db |-> removed.db, objects |-> del.objects]

\* a variant that deletes the assets' objects whatever the store answered
deleteAssetsRemoved_IgnoreErr(assetIDs, d, objs, perm, failAt, removed) ==
    deleteAssetsDeleted(assetIDs, removed,
                        Delete(objs, RemoveAssets(d, Uid, assetIDs).locators, perm, failAt))

\* server.go:892-897, removed being what neoDB.DeleteAssets returned
deleteAssetsRemoved(assetIDs, d, objs, perm, failAt, removed) ==
    IF removed.err # NoErr
    THEN [status |-> StatusInternalServerError, err |-> removed.err, panicked |-> FALSE,
          calls |-> <<DeleteAssetsCall(assetIDs, removed)>>, db |-> d, objects |-> objs]
    ELSE deleteAssetsDeleted(assetIDs, removed,
                             Delete(objs, removed.locators, perm, failAt))

deleteAssets(assetIDs, uid, d, objs, dbOk, perm, failAt) ==
    IF Len(assetIDs) = 0
    THEN [status |-> StatusBadRequest, err |-> "AssetIDs is empty", panicked |-> FALSE,
          calls |-> <<>>, db |-> d, objects |-> objs]
    ELSE deleteAssetsRemoved(assetIDs, d, objs, perm, failAt,
                             DBDeleteAssets(d, uid, assetIDs, dbOk))

\* binary.LittleEndian.PutUint64 into n bytes
RECURSIVE PutUint(_, _)
PutUint(v, n) == IF n = 0 THEN <<>> ELSE <<v % 256>> \o PutUint(v \div 256, n - 1)

NoBytes == <<>>
NoSizes == [id \in AssetIDs |-> NoSize]

Response(status, text, bytes, json) ==
    [status |-> status, text |-> text, bytes |-> bytes, json |-> json]

NoResponse == Response(0, "", NoBytes, NoSizes)

\* a variant that writes the error's text whatever the status
ErrorResponse_WithDetail(status, err, panicked) ==
    IF panicked THEN Response(StatusInternalServerError, "", NoBytes, NoSizes)
    ELSE Response(status, err, NoBytes, NoSizes)

\* what createAsset and patchAssets write for a failed createSingleAsset or
\* deleteAssets (server.go:751-759, 811-819, 825-833); a panic is answered
\* by GenericErrorHandler (server.go:306-311)
ErrorResponse(status, err, panicked) ==
    IF panicked \/ status = StatusInternalServerError
    THEN Response(StatusInternalServerError, "", NoBytes, NoSizes)
    ELSE Response(status, err, NoBytes, NoSizes)

-----------------------------------------------------------------------------
(* Requests *)

BearerPrefix == <<"B", "e", "a", "r", "e", "r">>

\* Authorization headers of the requests served: none, no token, a token
MainHeaders == {<<>>, BearerPrefix, BearerPrefix \o <<" ", "t", "k">>}

ValidAsset(id, bucket, orig) ==
    [AssetID |-> id, Type |-> <<>>, RemotePath |-> Locator(bucket, KeyLow),
     RemotePathOrig |-> orig, PixelWidth |-> 1, PixelHeight |-> 1, Key |-> <<"k">>]

AssetLow == ValidAsset(Id1, Bucket1, NoPath)
AssetBoth == ValidAsset(Id1, Bucket1, Locator(Bucket1, KeyOriginal))
\* the two representations in different containers
AssetCross == [ValidAsset(Id2, Bucket1, Locator(Bucket2, KeyOriginal)) EXCEPT
                 !.Type = <<"v", "i", "d", "e", "o">>]

InvalidAssets ==
    { [AssetBoth EXCEPT !.AssetID = <<>>],
      [AssetBoth EXCEPT !.RemotePath = <<>>],
      [AssetBoth EXCEPT !.Key = <<>>],
      [AssetBoth EXCEPT !.PixelWidth = 0],
      [AssetBoth EXCEPT !.PixelHeight = 0],
      [AssetBoth EXCEPT !.PixelWidth = 0, !.PixelHeight = 0] }

\* original paths that cannot be probed: no key, a control character
UnprobedAssets ==
    { [AssetBoth EXCEPT !.RemotePathOrig = Host \o <<"/">> \o Bucket1],
      [AssetBoth EXCEPT !.RemotePathOrig = Locator(Bucket1, <<Ctl>>)] }

\* bodies of POST /assets
Assets == {AssetLow, AssetBoth, AssetCross} \cup InvalidAssets \cup UnprobedAssets

\* items of the CREATE list of PATCH /assets
BatchAssets == {AssetBoth, AssetCross, [AssetBoth EXCEPT !.PixelWidth = 0]}

SeqsUpTo(S, n) == UNION {[1..k -> S] : k \in 0..n}

NoRequest ==
    [route |-> "none", header |-> <<>>, bodyOk |-> TRUE, CREATE |-> <<>>, DELETE |-> <<>>]

NoClient == [kind |-> "none", token |-> <<>>, err |-> NoErr]

ClientOf(r) == [kind |-> r.kind, token |-> r.token, err |-> r.err]

Idle == pc = "idle"

\* the answers of the service that createSingleAsset can observe for this asset
AnswersFor(asset) ==
    IF asset.RemotePathOrig = NoPath THEN {Fault} ELSE HeadAnswers

\* the outcomes of the federation exchange that getStorageClient can observe
ExchangesFor(configured) == IF configured THEN {TRUE} ELSE BOOLEAN

\* OIDCClient.extractAndVerifyIDToken: the error, or NoErr
verifyToken(t, verifyOk) ==
    IF t.err # NoErr THEN t.err
    ELSE IF ~verifyOk THEN "oidc: verification failed"
    ELSE NoErr

extractAndVerifyIDToken(header, verifyOk) ==
    verifyToken(RawOIDCTokenFromHeader(header), verifyOk)

\* the object store when the server starts: every object uploaded, or all but one
StoresAtStart == {Universe} \cup {Universe \ {o} : o \in Universe}

Init ==
    /\ serverStorageClient \in BOOLEAN
    /\ db = [id \in AssetIDs |-> NoAsset]
    /\ objects \in StoresAtStart
    /\ pc = "idle"
    /\ req = NoRequest
    /\ client = NoClient
    /\ idx = 0
    /\ resultData = NoSizes
    /\ calls = <<>>
    /\ response = NoResponse

\* the headers OIDCHandler lets through when the verifier accepts the token
Extractable == {h \in MainHeaders : RawOIDCTokenFromHeader(h).err = NoErr}

DecodeFailure == Response(StatusBadRequest, "Unable to decode JSON payload", NoBytes, NoSizes)

ServerFault == Response(StatusInternalServerError, "", NoBytes, NoSizes)

\* OIDCHandler answering a request for one of these routes that it does not
\* let through (oidc.go:51-56)
Refused(routes) ==
    /\ \E route \in routes, header \in MainHeaders, verifyOk \in BOOLEAN :
       \E err \in {extractAndVerifyIDToken(header, verifyOk)} :
          /\ err # NoErr
          /\ req' = [NoRequest EXCEPT !.route = route, !.header = header]
          /\ response' = Response(StatusUnauthorized, err, NoBytes, NoSizes)
    /\ pc' = "done"
    /\ client' = NoClient
    /\ calls' = <<>>
    /\ idx' = 0
    /\ resultData' = NoSizes
    /\ UNCHANGED <<serverStorageClient, db, objects>>

Unauthorized ==
    /\ Idle
    /\ Refused({"createAsset", "patchAssets"})

\* the handlers of the routes of main (server.go:130-177), all registered on
\* the router after router.Use(authClient.OIDCHandler()) (server.go:126)
Routes ==
    {"ping", "createUser", "getUsersFromAddressable", "getUUID", "updateUserContact",
     "getUser", "setSelfHostS3Permission", "getAssets", "createAsset", "patchAssets",
     "patchAssetsRemoteOriginalPaths", "patchAssetsOriginalFilenames",
     "putAssetRemotePathOriginal", "putAssetOriginalFilename", "getGroups", "createGroup",
     "getAssetsForAllGroups", "joinGroup", "leaveGroup", "getGroupUsers", "addUsersToGroup",
     "amendGroupAssets", "amendGroupSharedAssets", "ValidateIDs", "getAssetsSchema0",
     "patchSchema0"}

UnauthorizedAnyRoute ==
    /\ Idle
    /\ Refused(Routes)

\* a variant that writes eight bytes whether there is a size or not
createAssetResponse_AlwaysSize(r) ==
    IF r.panicked \/ r.err # NoErr THEN ErrorResponse(r.status, r.err, r.panicked)
    ELSE IF r.totalsize # NoSize
    THEN Response(StatusCreated, "", PutUint(r.totalsize, 8), NoSizes)
    ELSE Response(StatusCreated, "", PutUint(0, 8), NoSizes)

\* what createAsset writes after createSingleAsset returned r (server.go:750-766)
createAssetResponse(r) ==
    IF r.panicked \/ r.err # NoErr THEN ErrorResponse(r.status, r.err, r.panicked)
    ELSE IF r.totalsize # NoSize
    THEN Response(StatusCreated, "", PutUint(r.totalsize, 8), NoSizes)
    ELSE Response(StatusCreated, "", NoBytes, NoSizes)

\* POST /assets: OIDCHandler, then createAsset to its response
CreateAsset ==
    /\ Idle
    /\ \E header \in Extractable, bodyOk \in BOOLEAN, asset \in Assets :
          /\ req' = [route |-> "createAsset", header |-> header, bodyOk |-> bodyOk,
                     CREATE |-> <<asset>>, DELETE |-> <<>>]
          /\ IF ~bodyOk
             THEN /\ response' = DecodeFailure
                  /\ client' = NoClient
                  /\ calls' = <<>>
                  /\ db' = db
             ELSE \E stsOk \in ExchangesFor(serverStorageClient) :
                  \E sc \in {getStorageClient(serverStorageClient, header, stsOk)} :
                     /\ client' = ClientOf(sc)
                     /\ IF sc.err # NoErr
                        THEN /\ response' = ServerFault
                             /\ calls' = sc.calls
                             /\ db' = db
                        ELSE \E ansO \in AnswersFor(asset), ansL \in AnswersFor(asset),
                                dbOk \in BOOLEAN :
                             \E r \in {createSingleAsset(asset, Uid, db, objects,
                                                        ansO, ansL, dbOk)} :
                                /\ calls' = sc.calls \o r.calls
                                /\ db' = r.db
                                /\ response' = createAssetResponse(r)
    /\ pc' = "done"
    /\ idx' = 0
    /\ resultData' = NoSizes
    /\ UNCHANGED <<serverStorageClient, objects>>

\* PATCH /assets: OIDCHandler, then patchAssets up to its CREATE loop
\* (server.go:770-796)
PatchAssetsBegin ==
    /\ Idle
    /\ \E header \in Extractable, bodyOk \in BOOLEAN,
          create \in SeqsUpTo(BatchAssets, MaxBatch), delete \in SeqsUpTo(AssetIDs, MaxDelete) :
          /\ req' = [route |-> "patchAssets", header |-> header, bodyOk |-> bodyOk,
                     CREATE |-> create, DELETE |-> delete]
          /\ IF ~bodyOk
             THEN /\ response' = DecodeFailure
                  /\ client' = NoClient
                  /\ calls' = <<>>
                  /\ pc' = "done"
                  /\ idx' = 0
             ELSE \E stsOk \in ExchangesFor(serverStorageClient) :
                  \E sc \in {getStorageClient(serverStorageClient, header, stsOk)} :
                     /\ client' = ClientOf(sc)
                     /\ calls' = sc.calls
                     /\ IF sc.err # NoErr
                        THEN /\ response' = ServerFault
                             /\ pc' = "done"
                             /\ idx' = 0
                        ELSE /\ response' = NoResponse
                             /\ pc' = "create"
                             /\ idx' = 1
    /\ resultData' = NoSizes
    /\ UNCHANGED <<serverStorageClient, db, objects>>

\* a variant of the loop that goes on to the next item after a failure
PatchAssetsCreate_Continue ==
    /\ pc = "create"
    /\ idx <= Len(req.CREATE)
    /\ \E asset \in {req.CREATE[idx]} :
       \E ansO \in AnswersFor(asset), ansL \in AnswersFor(asset), dbOk \in BOOLEAN :
       \E r \in {createSingleAsset(asset, Uid, db, objects, ansO, ansL, dbOk)} :
          /\ calls' = calls \o r.calls
          /\ db' = r.db
          /\ resultData' = IF r.err = NoErr /\ ~r.panicked /\ r.totalsize # NoSize
                           THEN [resultData EXCEPT ![asset.AssetID] = r.totalsize]
                           ELSE resultData
          /\ idx' = idx + 1
          /\ UNCHANGED <<pc, response>>
    /\ UNCHANGED <<serverStorageClient, objects, req, client>>

\* one iteration of the CREATE loop; a failure breaks out of it and is
\* answered (server.go:799-819)
PatchAssetsCreate ==
    /\ pc = "create"
    /\ idx <= Len(req.CREATE)
    /\ \E asset \in {req.CREATE[idx]} :
       \E ansO \in AnswersFor(asset), ansL \in AnswersFor(asset), dbOk \in BOOLEAN :
       \E r \in {createSingleAsset(asset, Uid, db, objects, ansO, ansL, dbOk)} :
          /\ calls' = calls \o r.calls
          /\ db' = r.db
          /\ IF r.panicked \/ r.err # NoErr
             THEN /\ response' = ErrorResponse(r.status, r.err, r.panicked)
                  /\ pc' = "done"
                  /\ UNCHANGED <<idx, resultData>>
             ELSE /\ resultData' = IF r.totalsize # NoSize
                                   THEN [resultData EXCEPT ![asset.AssetID] = r.totalsize]
                                   ELSE resultData
                  /\ idx' = idx + 1
                  /\ UNCHANGED <<pc, response>>
    /\ UNCHANGED <<serverStorageClient, objects, req, client>>

\* after the CREATE loop: the DELETE list, then the answer (server.go:821-846)
PatchAssetsFinish ==
    /\ pc = "create"
    /\ idx > Len(req.CREATE)
    /\ IF Len(req.DELETE) # 0
       THEN \E dbOk \in BOOLEAN, perm \in Perms(Buckets), failAt \in 0..Cardinality(Buckets) :
            \E r \in {deleteAssets(req.DELETE, Uid, db, objects, dbOk, perm, failAt)} :
               /\ calls' = calls \o r.calls
               /\ db' = r.db
               /\ objects' = r.objects
               /\ response' = IF r.panicked \/ r.err # NoErr
                              THEN ErrorResponse(r.status, r.err, r.panicked)
                              ELSE Response(StatusOK, "", NoBytes, resultData)
       ELSE /\ response' = Response(StatusOK, "", NoBytes, resultData)
            /\ UNCHANGED <<calls, db, objects>>
    /\ pc' = "done"
    /\ UNCHANGED <<serverStorageClient, req, client, idx, resultData>>

\* the handler has returned: the request and what belonged to it are dropped
Return ==
    /\ pc = "done"
    /\ pc' = "idle"
    /\ req' = NoRequest
    /\ client' = NoClient
    /\ idx' = 0
    /\ resultData' = NoSizes
    /\ calls' = <<>>
    /\ response' = NoResponse
    /\ UNCHANGED <<serverStorageClient, db, objects>>

-----------------------------------------------------------------------------
(* getStorageClient on its own, over requests of every shape *)

HeaderPrefixes ==
    {BearerPrefix, StrBEARER, <<"b", "e", "a", "r", "e", "r">>, <<"B", "a", "s", "i", "c">>}

ResolveHeaders ==
    {<<>>} \cup {p \o sep \o t : p \in HeaderPrefixes, sep \in {<<>>, <<" ">>},
                                 t \in {<<>>, <<"t">>, <<"t", "k">>, <<"t", "k", "n">>}}

InitResolve ==
    /\ serverStorageClient \in BOOLEAN
    /\ db = [id \in AssetIDs |-> NoAsset]
    /\ objects = Universe
    /\ pc = "idle"
    /\ \E header \in ResolveHeaders : req = [NoRequest EXCEPT !.route = "resolve", !.header = header]
    /\ client = NoClient
    /\ idx = 0
    /\ resultData = NoSizes
    /\ calls = <<>>
    /\ response = NoResponse

ResolveStorageClient ==
    /\ pc = "idle"
    /\ \E stsOk \in BOOLEAN :
       \E sc \in {getStorageClient(serverStorageClient, req.header, stsOk)} :
          /\ client' = ClientOf(sc)
          /\ calls' = sc.calls
    /\ pc' = "done"
    /\ UNCHANGED <<serverStorageClient, db, objects, req, idx, resultData, response>>

\* what each handler does with what getStorageClient returned
\* (server.go:743-748, 788-793, 925-930, 1001-1006): a failure is answered
\* 500 and the handler returns
ResolveAnswered ==
    /\ pc = "done"
    /\ req.route = "resolve"
    /\ IF client.err # NoErr
       THEN /\ response' = ServerFault
            /\ pc' = "answered"
       ELSE /\ response' = NoResponse
            /\ pc' = "resolved"
    /\ UNCHANGED <<serverStorageClient, db, objects, req, client, idx, resultData, calls>>

NextResolve ==
    \/ ResolveStorageClient
    \/ ResolveAnswered

SpecResolve == InitResolve /\ [][NextResolve]_vars

-----------------------------------------------------------------------------
(* The group handlers: joinGroup, addUsersToGroup, leaveGroup,
   amendGroupAssets, amendGroupSharedAssets *)

User1 == <<"u", "1">>
User2 == <<"u", "2">>

\* what neoDB.GetUsersInGroup may return: the members, io.EOF (no data), or
\* another error
Lookups ==
    {[err |-> NoErr, users |-> us] : us \in {<<User1>>, <<User1, User2>>, <<User2, User1>>}}
    \cup {[err |-> "EOF", users |-> <<>>], [err |-> "database", users |-> <<>>]}

\* a call of a mutation of the metadata store
MutationCall(op, ids, keys, ok) == Call(op, <<>>, keys, ids, 0, ok)

\* a variant that leaves the first member out of the notification
notifyUsers_SkipFirst(lookup, kind, notifyOk) ==
    IF lookup.err = "EOF"
    THEN <<Call("GetUsersInGroup", <<>>, <<lookup.err>>, lookup.users, 0, FALSE)>>
    ELSE <<Call("GetUsersInGroup", <<>>, <<lookup.err>>, lookup.users, 0, lookup.err = NoErr),
           Call("Notify", <<>>, <<kind>>,
                IF lookup.users = <<>> THEN <<>> ELSE Tail(lookup.users), 0, notifyOk)>>

\* a variant that notifies after a lookup that returned io.EOF as well
notifyUsers_NotifyOnEOF(lookup, kind, notifyOk) ==
    <<Call("GetUsersInGroup", <<>>, <<lookup.err>>, lookup.users, 0, lookup.err = NoErr),
      Call("Notify", <<>>, <<kind>>, lookup.users, 0, notifyOk)>>

\* the notification that follows a successful mutation (server.go:504-517,
\* 1149-1166, 1335-1348, 1398-1411): the lookup, then Notify unless the
\* lookup returned io.EOF
notifyUsers(lookup, kind, notifyOk) ==
    IF lookup.err = "EOF"
    THEN <<Call("GetUsersInGroup", <<>>, <<lookup.err>>, lookup.users, 0, FALSE)>>
    ELSE <<Call("GetUsersInGroup", <<>>, <<lookup.err>>, lookup.users, 0, lookup.err = NoErr),
           Call("Notify", <<>>, <<kind>>, lookup.users, 0, notifyOk)>>

GroupRequest(route, groupOk, bodyOk, flag, assetIDs, assetKeys, users) ==
    [route |-> route, groupOk |-> groupOk, bodyOk |-> bodyOk, flag |-> flag,
     AssetIDs |-> assetIDs, AssetKeys |-> assetKeys, Users |-> users]

\* the status and text a group handler writes, and the calls it has made
GroupAnswered(status, text, issued) ==
    /\ response' = Response(status, text, NoBytes, NoSizes)
    /\ calls' = issued
    /\ pc' = "done"
    /\ UNCHANGED <<serverStorageClient, db, objects, client, idx, resultData>>

\* a variant in which a failed notification turns the answer into a failure
groupMutated_NotifyDecides(okStatus, call, notified) ==
    IF ~call.ok \/ (notified # <<>> /\ ~notified[Len(notified)].ok)
    THEN GroupAnswered(StatusInternalServerError, "", <<call>> \o notified)
    ELSE GroupAnswered(okStatus, "", <<call>> \o notified)

\* a variant that notifies whatever the mutation returned
groupMutated_NotifyAnyway(okStatus, call, notified) ==
    GroupAnswered(IF call.ok THEN okStatus ELSE StatusInternalServerError, "",
                  <<call>> \o notified)

\* after the mutation `call` (server.go:497-518, 590-607, 1143-1167,
\* 1328-1349, 1391-1413): a failure is answered 500; a success is answered
\* okStatus and followed by the calls `notified`
groupMutated(okStatus, call, notified) ==
    IF ~call.ok
    THEN GroupAnswered(StatusInternalServerError, "", <<call>>)
    ELSE GroupAnswered(okStatus, "", <<call>> \o notified)

\* what every group handler answers to a group id that is no UUID
InvalidGroup == GroupAnswered(StatusBadRequest, "Invalid UUID string for Group ID", <<>>)

Undecodable == GroupAnswered(StatusBadRequest, "Unable to decode JSON payload", <<>>)

\* PUT /groups/{groupID}
JoinGroup ==
    /\ Idle
    /\ \E groupOk \in BOOLEAN, bodyOk \in BOOLEAN, dbOk \in BOOLEAN, notifyOk \in BOOLEAN,
          lookup \in Lookups :
          /\ req' = GroupRequest("joinGroup", groupOk, bodyOk, FALSE, <<>>, <<>>, <<>>)
          /\ IF ~groupOk THEN InvalidGroup
             ELSE IF ~bodyOk THEN Undecodable
             ELSE groupMutated(StatusCreated, MutationCall("JoinGroup", <<>>, <<>>, dbOk),
                               notifyUsers(lookup, "UserJoinedGroup", notifyOk))

\* the Users lists of the payload of addUsersToGroup
UserLists == {<<>>, <<User1>>, <<User1, User2>>}

\* PATCH /groups/{groupID}/users: the invited users are notified, without
\* a lookup (server.go:590-607)
AddUsersToGroup ==
    /\ Idle
    /\ \E groupOk \in BOOLEAN, bodyOk \in BOOLEAN, dbOk \in BOOLEAN, notifyOk \in BOOLEAN,
          users \in UserLists :
          /\ req' = GroupRequest("addUsersToGroup", groupOk, bodyOk, FALSE, <<>>, <<>>, users)
          /\ IF ~groupOk THEN InvalidGroup
             ELSE IF ~bodyOk THEN Undecodable
             ELSE IF Len(users) = 0
             THEN GroupAnswered(StatusBadRequest, "Empty data supplied", <<>>)
             ELSE groupMutated(StatusOK, MutationCall("AddUsersToGroup", users, <<>>, dbOk),
                               <<Call("Notify", <<>>, <<"GroupInvite">>, users, 0, notifyOk)>>)

\* DELETE /groups/{groupID}
LeaveGroup ==
    /\ Idle
    /\ \E groupOk \in BOOLEAN, dbOk \in BOOLEAN, notifyOk \in BOOLEAN, lookup \in Lookups :
          /\ req' = GroupRequest("leaveGroup", groupOk, TRUE, FALSE, <<>>, <<>>, <<>>)
          /\ IF ~groupOk THEN InvalidGroup
             ELSE groupMutated(StatusOK, MutationCall("LeaveGroup", <<>>, <<>>, dbOk),
                               notifyUsers(lookup, "UserLeftGroup", notifyOk))

\* the AssetIDs and AssetKeys lists of the payloads
IdLists == {<<>>, <<Id1>>, <<Id1, Id2>>}
KeyLists == {<<>>, <<"k1">>, <<"k1", "k2">>, <<"k1", "k2", "k3">>}

\* PATCH /groups/{groupID}/album: only the removal of assets is notified
\* (server.go:1397)
AmendGroupAssets ==
    /\ Idle
    /\ \E groupOk \in BOOLEAN, bodyOk \in BOOLEAN, dbOk \in BOOLEAN, notifyOk \in BOOLEAN,
          add \in BOOLEAN, assetIDs \in IdLists, lookup \in Lookups :
          /\ req' = GroupRequest("amendGroupAssets", groupOk, bodyOk, add, assetIDs, <<>>, <<>>)
          /\ IF ~groupOk THEN InvalidGroup
             ELSE IF ~bodyOk THEN Undecodable
             ELSE IF Len(assetIDs) = 0
             THEN GroupAnswered(StatusBadRequest, "No asset IDs provided for request", <<>>)
             ELSE IF add
             THEN groupMutated(StatusOK, MutationCall("AddAssetsToGroup", assetIDs, <<>>, dbOk),
                               <<>>)
             ELSE groupMutated(StatusOK,
                               MutationCall("RemoveAssetsFromGroup", assetIDs, <<>>, dbOk),
                               notifyUsers(lookup, "AssetsChangedForGroup", notifyOk))

\* a variant that only looks for an empty key list
KeysMissing_OnlyEmpty(share, assetIDs, assetKeys) == share /\ Len(assetKeys) = 0

\* the check of server.go:1130
KeysMissing(share, assetIDs, assetKeys) ==
    share /\ (Len(assetKeys) = 0 \/ Len(assetIDs) # Len(assetKeys))

\* PATCH /groups/{groupID}/album/shared
AmendGroupSharedAssets ==
    /\ Idle
    /\ \E groupOk \in BOOLEAN, bodyOk \in BOOLEAN, dbOk \in BOOLEAN, notifyOk \in BOOLEAN,
          share \in BOOLEAN, assetIDs \in IdLists, assetKeys \in KeyLists, lookup \in Lookups :
          /\ req' = GroupRequest("amendGroupSharedAssets", groupOk, bodyOk, share,
                                 assetIDs, assetKeys, <<>>)
          /\ IF ~groupOk THEN InvalidGroup
             ELSE IF ~bodyOk THEN Undecodable
             ELSE IF Len(assetIDs) = 0
             THEN GroupAnswered(StatusBadRequest, "No asset ids provided for request", <<>>)
             ELSE IF KeysMissing(share, assetIDs, assetKeys)
             THEN GroupAnswered(StatusBadRequest, "No asset keys provided for request", <<>>)
             ELSE IF share
             THEN groupMutated(StatusOK, MutationCall("ShareAssets", assetIDs, assetKeys, dbOk),
                               notifyUsers(lookup, "AssetsAddedToGroupByUser", notifyOk))
             ELSE groupMutated(StatusOK, MutationCall("UnshareAssets", assetIDs, <<>>, dbOk),
                               notifyUsers(lookup, "AssetsChangedForGroup", notifyOk))

NextGroups ==
    \/ JoinGroup
    \/ AddUsersToGroup
    \/ LeaveGroup
    \/ AmendGroupAssets
    \/ AmendGroupSharedAssets

SpecGroups == Init /\ [][NextGroups]_vars

-----------------------------------------------------------------------------
(* The handlers that attach original paths: putAssetRemotePathOriginal and
   patchAssetsRemoteOriginalPaths *)

\* neoDB.AddPathForOriginalAsset: on success the owner's asset, if recorded,
\* gets the path and the size
DBAddPathForOriginalAsset(d, uid, id, path, size, ok) ==
    IF ~ok THEN [err |-> "database", db |-> d]
    ELSE IF d[id].present /\ d[id].owner = uid
    THEN [err |-> NoErr, db |-> [d EXCEPT ![id].remotePathOrig = path, ![id].totalsize = size]]
    ELSE [err |-> NoErr, db |-> d]

AddPathCall(id, path, size, ok) ==
    Call("AddPathForOriginalAsset", <<>>, <<path>>, <<id>>, size, ok)

\* server.go:1016-1028: the 500 written for a failed probe is not followed by
\* a return; the first status written is the one the caller gets
putOriginalStored(fs, call, stored) ==
    [status |-> IF fs.err # NoErr \/ stored.err # NoErr
                THEN StatusInternalServerError ELSE StatusOK,
     calls |-> Append(fs.calls, call), db |-> stored.db]

\* server.go:1008-1021, fs being what Filesizes returned
putOriginalSized(id, path, d, fs, size, dbOk) ==
    IF fs.panicked
    THEN [status |-> StatusInternalServerError, calls |-> fs.calls, db |-> d]
    ELSE putOriginalStored(fs, AddPathCall(id, path, size, dbOk),
                           DBAddPathForOriginalAsset(d, Uid, id, path, size, dbOk))

\* the Remotepathorig of the payloads: empty, two originals, an unparsable one
OriginalPaths ==
    {<<>>, Locator(Bucket1, KeyOriginal), Locator(Bucket2, KeyOriginal),
     Locator(Bucket1, <<Ctl>>)}

\* what a handler of this group writes and has done when it returns
OriginalAnswered(resp, cl, issued, d) ==
    /\ response' = resp
    /\ client' = cl
    /\ calls' = issued
    /\ db' = d
    /\ pc' = "done"

\* PUT /assets/{assetID}/original
PutAssetRemotePathOriginal ==
    /\ Idle
    /\ \E header \in Extractable, idOk \in BOOLEAN, bodyOk \in BOOLEAN, id \in AssetIDs,
          path \in OriginalPaths :
          /\ req' = [route |-> "putAssetRemotePathOriginal", header |-> header,
                     idOk |-> idOk, bodyOk |-> bodyOk, AssetID |-> id,
                     Remotepathorig |-> path]
          /\ IF ~idOk
             THEN OriginalAnswered(Response(StatusBadRequest,
                                            "Invalid UUID string for Asset ID",
                                            NoBytes, NoSizes), NoClient, <<>>, db)
             ELSE IF ~bodyOk THEN OriginalAnswered(ServerFault, NoClient, <<>>, db)
             ELSE IF validateArgsNotZero(<<path>>) # -1
             THEN OriginalAnswered(Response(StatusBadRequest, invalidArgError(0),
                                            NoBytes, NoSizes), NoClient, <<>>, db)
             ELSE \E stsOk \in ExchangesFor(serverStorageClient) :
                  \E sc \in {getStorageClient(serverStorageClient, header, stsOk)} :
                     IF sc.err # NoErr
                     THEN OriginalAnswered(ServerFault, ClientOf(sc), sc.calls, db)
                     ELSE \E ansO \in HeadAnswers, ansL \in HeadAnswers, dbOk \in BOOLEAN :
                          \E fs \in {Filesizes(objects, path, ansO, ansL)} :
                          \E r \in {putOriginalSized(id, path, db, fs,
                                                     FloorLength(fs.originalLength)
                                                     + FloorLength(fs.lowLength), dbOk)} :
                             OriginalAnswered(Response(r.status, "", NoBytes, NoSizes),
                                              ClientOf(sc), sc.calls \o r.calls, r.db)
    /\ UNCHANGED <<serverStorageClient, objects, idx, resultData>>

MaxOriginals == 2

\* the payload of PATCH /assets/original, a map from asset id to path, as the
\* entries in the order in which Go ranges over it
Payloads ==
    {p \in SeqsUpTo([id : AssetIDs,
                     path : {Locator(Bucket1, KeyOriginal), Locator(Bucket2, KeyOriginal)}],
                    MaxOriginals) :
        \A i, j \in 1..Len(p) : p[i].id = p[j].id => i = j}

\* server.go:942-951 for one entry: [err, panicked, calls, db, size]
attachOriginalStored(fs, size, call, stored, d) ==
    [err |-> stored.err, panicked |-> FALSE, calls |-> Append(fs.calls, call),
     db |-> stored.db, size |-> size]

\* server.go:934-946 for one entry, fs being what Filesizes returned
attachOriginal(entry, d, fs, size, dbOk) ==
    IF fs.panicked \/ fs.err # NoErr
    THEN [err |-> fs.err, panicked |-> fs.panicked, calls |-> fs.calls, db |-> d,
          size |-> NoSize]
    ELSE attachOriginalStored(fs, size, AddPathCall(entry.id, entry.path, size, dbOk),
                              DBAddPathForOriginalAsset(d, Uid, entry.id, entry.path,
                                                        size, dbOk), d)

\* server.go:954-967: the err tested after the loop is the one declared at
\* line 925, which the loop's own err (declared at line 934) shadows
patchOriginalsResponse(outerErr, data) ==
    IF outerErr # NoErr THEN ServerFault
    ELSE Response(StatusOK, "", NoBytes, data)

\* PATCH /assets/original up to its loop (server.go:905-932)
PatchOriginalsBegin ==
    /\ Idle
    /\ \E header \in Extractable, bodyOk \in BOOLEAN, payload \in Payloads :
          /\ req' = [route |-> "patchAssetsRemoteOriginalPaths", header |-> header,
                     bodyOk |-> bodyOk, payload |-> payload]
          /\ IF ~bodyOk
             THEN /\ response' = ServerFault
                  /\ client' = NoClient
                  /\ calls' = <<>>
                  /\ pc' = "done"
                  /\ idx' = 0
             ELSE IF Len(payload) = 0
             THEN /\ response' = Response(StatusBadRequest, "payload is empty",
                                          NoBytes, NoSizes)
                  /\ client' = NoClient
                  /\ calls' = <<>>
                  /\ pc' = "done"
                  /\ idx' = 0
             ELSE \E stsOk \in ExchangesFor(serverStorageClient) :
                  \E sc \in {getStorageClient(serverStorageClient, header, stsOk)} :
                     /\ client' = ClientOf(sc)
                     /\ calls' = sc.calls
                     /\ IF sc.err # NoErr
                        THEN /\ response' = ServerFault
                             /\ pc' = "done"
                             /\ idx' = 0
                        ELSE /\ response' = NoResponse
                             /\ pc' = "attach"
                             /\ idx' = 1
    /\ resultData' = NoSizes
    /\ UNCHANGED <<serverStorageClient, db, objects>>

\* one iteration of the loop (server.go:933-952); a failure breaks out of it
\* and the handler goes on to its answer
PatchOriginalsAttach ==
    /\ pc = "attach"
    /\ idx <= Len(req.payload)
    /\ \E ansO \in HeadAnswers, ansL \in HeadAnswers, dbOk \in BOOLEAN :
       \E fs \in {Filesizes(objects, req.payload[idx].path, ansO, ansL)} :
       \E r \in {attachOriginal(req.payload[idx], db, fs,
                                FloorLength(fs.originalLength) + FloorLength(fs.lowLength),
                                dbOk)} :
          /\ calls' = calls \o r.calls
          /\ db' = r.db
          /\ IF r.panicked
             THEN /\ response' = ServerFault
                  /\ pc' = "done"
                  /\ UNCHANGED <<idx, resultData>>
             ELSE IF r.err # NoErr
             THEN /\ response' = patchOriginalsResponse(client.err, resultData)
                  /\ pc' = "done"
                  /\ UNCHANGED <<idx, resultData>>
             ELSE /\ resultData' = [resultData EXCEPT ![req.payload[idx].id] = r.size]
                  /\ idx' = idx + 1
                  /\ UNCHANGED <<pc, response>>
    /\ UNCHANGED <<serverStorageClient, objects, req, client>>

\* after the last entry (server.go:954-967)
PatchOriginalsFinish ==
    /\ pc = "attach"
    /\ idx > Len(req.payload)
    /\ response' = patchOriginalsResponse(client.err, resultData)
    /\ pc' = "done"
    /\ UNCHANGED <<serverStorageClient, db, objects, req, client, idx, resultData, calls>>

\* one asset is recorded, without an original
InitOriginals ==
    /\ serverStorageClient \in BOOLEAN
    /\ db = DBCreateAsset([id \in AssetIDs |-> NoAsset], Uid, AssetLow, Photo, NoSize, TRUE).db
    /\ objects \in StoresAtStart
    /\ pc = "idle"
    /\ req = NoRequest
    /\ client = NoClient
    /\ idx = 0
    /\ resultData = NoSizes
    /\ calls = <<>>
    /\ response = NoResponse

NextOriginals ==
    \/ PutAssetRemotePathOriginal
    \/ PatchOriginalsBegin
    \/ PatchOriginalsAttach
    \/ PatchOriginalsFinish

SpecOriginals == InitOriginals /\ [][NextOriginals]_vars

-----------------------------------------------------------------------------
(* The deadline of middleware.Timeout (server.go:127) over patchAssets *)

StatusGatewayTimeout == 504

\* the deadline of the request's context has passed; the log records when
DeadlinePassed ==
    \E i \in 1..Len(calls) : calls[i].op = "DeadlineExceeded"

\* the timer of the context fires while the handler runs. No handler reads
\* request.Context().Done() or passes the context to neoDB or to the storage
\* client (server.go:794-840, 887-903), so nothing else changes
DeadlineExceeded ==
    /\ pc = "create"
    /\ ~DeadlinePassed
    /\ calls' = Append(calls, Call("DeadlineExceeded", <<>>, <<>>, <<>>, 0, TRUE))
    /\ UNCHANGED <<serverStorageClient, db, objects, pc, req, client, idx, resultData,
                   response>>

\* the handler has returned to the middleware, which writes 504 after a passed
\* deadline; a status written by the handler stays (net/http keeps the first)
TimeoutReturn ==
    /\ pc = "done"
    /\ pc' = "answered"
    /\ response' = IF DeadlinePassed /\ response.status = 0
                   THEN Response(StatusGatewayTimeout, "", NoBytes, NoSizes)
                   ELSE response
    /\ UNCHANGED <<serverStorageClient, db, objects, req, client, idx, resultData, calls>>

NextTimeout ==
    \/ PatchAssetsBegin
    \/ PatchAssetsCreate
    \/ PatchAssetsFinish
    \/ DeadlineExceeded
    \/ TimeoutReturn

SpecTimeout == Init /\ [][NextTimeout]_vars

-----------------------------------------------------------------------------
(* The query handlers *)

StatusNoContent == 204

\* what a query of the metadata store returns: data with a nil error, io.EOF
\* when there is nothing, or another error; with an error the data is the nil
\* value or whatever the store had gathered
StoreOutcomes ==
    [err : {NoErr}, data : {<<User1>>, <<User2>>, <<User1, User2>>}]
        \cup [err : {"EOF"}, data : {<<>>}]
        \cup [err : {"database"}, data : {<<>>, <<User1>>}]

QueryCall(op, out) == Call(op, <<>>, <<out.err>>, out.data, 0, out.err = NoErr)

\* json.Marshal of a list; of the nil list it is null
Marshal(data) ==
    IF data = <<>> THEN <<"null">> ELSE <<"[">> \o data \o <<"]">>

\* the switch on err of getUUID, getUser, getGroups, getUsersFromAddressable,
\* getAssets, getAssetsSchema0 and getAssetsForAllGroups (server.go:331-345)
switchOnErr(out) ==
    IF out.err = NoErr THEN Response(StatusOK, "", NoBytes, Marshal(out.data))
    ELSE IF out.err = "EOF" THEN Response(StatusNoContent, "", NoBytes, NoSizes)
    ELSE ServerFault

\* getGroupUsers and ValidateIDs test err against io.EOF only, and the err of
\* json.Marshal replaces the one of the query (server.go:622-634, 695-708)
eofElseMarshal(out) ==
    IF out.err = "EOF" THEN Response(StatusNoContent, "", NoBytes, NoSizes)
    ELSE Response(StatusOK, "", NoBytes, Marshal(out.data))

\* the handlers that answer through the switch, with the query each makes;
\* getUser is the one that checks an id of the URL first
SwitchQueries ==
    {<<"getUUID", "GetUser">>, <<"getUser", "GetPublicInfoForUsers">>,
     <<"getGroups", "GetGroups">>, <<"getAssets", "GetAssets">>,
     <<"getAssetsSchema0", "GetAssetsSchema0">>,
     <<"getAssetsForAllGroups", "GetAssetsForAllGroups">>}

QueryRequest(route, idOk, bodyOk, empty) ==
    [route |-> route, idOk |-> idOk, bodyOk |-> bodyOk, empty |-> empty]

QueryAnswered(resp, issued) ==
    /\ response' = resp
    /\ calls' = issued
    /\ pc' = "done"
    /\ UNCHANGED <<serverStorageClient, db, objects, client, idx, resultData>>

QueryBySwitch ==
    /\ Idle
    /\ \E q \in SwitchQueries, idOk \in BOOLEAN, out \in StoreOutcomes :
          /\ q[1] # "getUser" => idOk
          /\ req' = QueryRequest(q[1], idOk, TRUE, FALSE)
          /\ IF ~idOk
             THEN QueryAnswered(Response(StatusBadRequest, "Invalid UUID string for User ID",
                                         NoBytes, NoSizes), <<>>)
             ELSE QueryAnswered(switchOnErr(out), <<QueryCall(q[2], out)>>)

\* a variant that answers by the outcome of the query alone
addressableResponse_ByOutcome(empty, out) == switchOnErr(out)

\* server.go:651-676: the 400 for a payload without addresses is not followed
\* by a return; it is the first status written, so the one the caller gets
addressableResponse(empty, out) ==
    IF empty
    THEN Response(StatusBadRequest, "No addresses provided", NoBytes, NoSizes)
    ELSE switchOnErr(out)

\* POST /users/public (server.go:637-677); for three empty lists the store has
\* no data to return
GetUsersFromAddressable ==
    /\ Idle
    /\ \E bodyOk \in BOOLEAN, empty \in BOOLEAN, out \in StoreOutcomes :
          /\ empty => out.err # NoErr
          /\ req' = QueryRequest("getUsersFromAddressable", TRUE, bodyOk, empty)
          /\ IF ~bodyOk
             THEN QueryAnswered(Response(StatusBadRequest, "Unable to decode JSON payload",
                                         NoBytes, NoSizes), <<>>)
             ELSE QueryAnswered(addressableResponse(empty, out),
                                <<QueryCall("GetPublicInfoForUsers", out)>>)

\* GET /groups/{groupID}/users (server.go:679-708)
GetGroupUsers ==
    /\ Idle
    /\ \E idOk \in BOOLEAN, out \in StoreOutcomes :
          /\ req' = QueryRequest("getGroupUsers", idOk, TRUE, FALSE)
          /\ IF ~idOk
             THEN QueryAnswered(Response(StatusBadRequest, "Invalid UUID string for Group ID",
                                         NoBytes, NoSizes), <<>>)
             ELSE QueryAnswered(eofElseMarshal(out), <<QueryCall("GetUsersInGroup", out)>>)

\* POST /info/validids (server.go:610-635)
ValidateIDs ==
    /\ Idle
    /\ \E bodyOk \in BOOLEAN, out \in StoreOutcomes :
          /\ req' = QueryRequest("ValidateIDs", TRUE, bodyOk, FALSE)
          /\ IF ~bodyOk THEN QueryAnswered(ServerFault, <<>>)
             ELSE QueryAnswered(eofElseMarshal(out), <<QueryCall("VerifyUUIDS", out)>>)

NextQueries ==
    \/ QueryBySwitch
    \/ GetUsersFromAddressable
    \/ GetGroupUsers
    \/ ValidateIDs

SpecQueries == Init /\ [][NextQueries]_vars

-----------------------------------------------------------------------------
(* createUser and updateUserContact, with package auth's AuthProviders *)

\* the keys of Firebase.Identities read by AuthProvidersFromToken, in the
\* order of the fields PhoneNumber, Email, AppleID (firebase.go:48-52)
IdentityKeys == <<"phone", "email", "apple.com">>

\* what a token may hold under a key whose value would be v: no list, an
\* empty list, a list starting with something that is no string, with the
\* empty string, or with v
IdentityEntries(v) ==
    {[list |-> FALSE, elems |-> <<>>],
     [list |-> TRUE, elems |-> <<>>],
     [list |-> TRUE, elems |-> <<[str |-> FALSE, val |-> v]>>],
     [list |-> TRUE, elems |-> <<[str |-> TRUE, val |-> <<>>]>>],
     [list |-> TRUE, elems |-> <<[str |-> TRUE, val |-> v]>>],
     [list |-> TRUE, elems |-> <<[str |-> TRUE, val |-> v], [str |-> TRUE, val |-> <<"x">>]>>]}

\* firebase.go:67-77; NoPath is the nil *string
identity(identities, identifier) ==
    IF ~identities[identifier].list \/ Len(identities[identifier].elems) < 1 THEN NoPath
    ELSE IF ~identities[identifier].elems[1].str \/ identities[identifier].elems[1].val = <<>>
    THEN NoPath
    ELSE identities[identifier].elems[1].val

\* the hex digest of a value (part_001:15-19), kept symbolic as the value
\* under a tag: equal values have equal digests, different values different ones
shasum256(value) == <<"sha256">> \o value

\* a variant that passes the value through
shasum256P_Plain(value) == value

\* part_001:22-28
shasum256P(value) == IF value = NoPath THEN NoPath ELSE shasum256(value)

\* firebase.go:42-54; claimsOk says whether idToken.Claims succeeded
AuthProvidersFromToken(claimsOk, identities) ==
    IF ~claimsOk THEN [err |-> "claims", providers |-> <<>>]
    ELSE [err |-> NoErr,
          providers |-> [k \in 1..3 |-> shasum256P(identity(identities, IdentityKeys[k]))]]

UserRequest(route, bodyOk, keys, claimsOk, identities) ==
    [route |-> route, bodyOk |-> bodyOk, keys |-> keys, claimsOk |-> claimsOk,
     identities |-> identities]

Tokens ==
    [{"phone"} -> IdentityEntries(<<"p">>)] \X [{"email"} -> IdentityEntries(<<"e">>)]
        \X [{"apple.com"} -> IdentityEntries(<<"a">>)]

\* POST /users (server.go:349-393)
CreateUser ==
    /\ Idle
    /\ \E bodyOk \in BOOLEAN, claimsOk \in BOOLEAN, dbOk \in BOOLEAN, t \in Tokens,
          keys \in {<<StrBEARER, StrBEARER>>, <<<<>>, StrBEARER>>} :
       \E ap \in {AuthProvidersFromToken(claimsOk, t[1] @@ t[2] @@ t[3])} :
          /\ req' = UserRequest("createUser", bodyOk, keys, claimsOk, t[1] @@ t[2] @@ t[3])
          /\ IF ~bodyOk
             THEN QueryAnswered(Response(StatusBadRequest, "Unable to decode JSON payload",
                                         NoBytes, NoSizes), <<>>)
             ELSE IF validateArgsNotZero(keys) # -1
             THEN QueryAnswered(Response(StatusBadRequest,
                                         invalidArgError(validateArgsNotZero(keys)),
                                         NoBytes, NoSizes), <<>>)
             ELSE IF ap.err # NoErr THEN QueryAnswered(ServerFault, <<>>)
             ELSE QueryAnswered(IF dbOk THEN Response(StatusCreated, "userid", NoBytes, NoSizes)
                                ELSE ServerFault,
                                <<Call("CreateUser", <<>>, ap.providers, keys, 0, dbOk)>>)

\* PUT /users/self/contact (server.go:395-418)
UpdateUserContact ==
    /\ Idle
    /\ \E claimsOk \in BOOLEAN, dbOk \in BOOLEAN, t \in Tokens :
       \E ap \in {AuthProvidersFromToken(claimsOk, t[1] @@ t[2] @@ t[3])} :
          /\ req' = UserRequest("updateUserContact", TRUE, <<>>, claimsOk,
                                t[1] @@ t[2] @@ t[3])
          /\ IF ap.err # NoErr THEN QueryAnswered(ServerFault, <<>>)
             ELSE QueryAnswered(IF dbOk THEN Response(StatusOK, "", NoBytes, NoSizes)
                                ELSE ServerFault,
                                <<Call("UpdateUserContact", <<>>, ap.providers, <<>>, 0, dbOk)>>)

NextUsers ==
    \/ CreateUser
    \/ UpdateUserContact

SpecUsers == Init /\ [][NextUsers]_vars

-----------------------------------------------------------------------------
(* putAssetOriginalFilename and patchAssetsOriginalFilenames, over several
   requests; the log is kept from one request to the next *)

\* neoDB.SetAssetsOriginalFilenames: on success every asset of the map that
\* the user owns gets the name of the map
DBSetAssetsOriginalFilenames(d, uid, data, ok) ==
    IF ~ok THEN [err |-> "database", db |-> d]
    ELSE [err |-> NoErr,
          db |-> [id \in AssetIDs |->
                    IF id \in DOMAIN data /\ d[id].present /\ d[id].owner = uid
                    THEN [originalFilename |-> data[id]] @@ d[id]
                    ELSE d[id]]]

\* a variant that treats a call that changed nothing as a failure
setFilenamesAnswer_ErrorWhenUnchanged(d, stored) ==
    IF stored.err # NoErr \/ stored.db = d THEN ServerFault
    ELSE Response(StatusOK, "", NoBytes, NoSizes)

\* server.go:1059-1064 and 1089-1094
setFilenamesAnswer(d, stored) ==
    IF stored.err # NoErr THEN ServerFault
    ELSE Response(StatusOK, "", NoBytes, NoSizes)

\* the requests handled in a behaviour
MaxRequests == 2

Filenames == {<<"f">>, <<"g">>}

\* the maps from asset ids to filenames
FilenameMaps == UNION {[ids -> Filenames] : ids \in SUBSET AssetIDs}

FilenamesAnswered(resp, issued, d) ==
    /\ response' = resp
    /\ calls' = calls \o issued
    /\ db' = d
    /\ pc' = "done"
    /\ UNCHANGED <<serverStorageClient, objects, client, idx, resultData>>

\* what both handlers do with the map they pass to the store
setFilenames(data, dbOk) ==
    \E stored \in {DBSetAssetsOriginalFilenames(db, Uid, data, dbOk)} :
        FilenamesAnswered(setFilenamesAnswer(db, stored),
                          <<Call("SetAssetsOriginalFilenames", <<>>, data, <<>>, 0, dbOk)>>,
                          stored.db)

\* PUT /assets/{assetID}/originalfilename (server.go:1031-1065)
PutAssetOriginalFilename ==
    /\ Idle
    /\ Len(calls) < MaxRequests
    /\ \E idOk \in BOOLEAN, bodyOk \in BOOLEAN, dbOk \in BOOLEAN, id \in AssetIDs,
          name \in Filenames :
          /\ req' = [route |-> "putAssetOriginalFilename", idOk |-> idOk, bodyOk |-> bodyOk,
                     payload |-> [i \in {id} |-> name]]
          /\ IF ~idOk
             THEN FilenamesAnswered(Response(StatusBadRequest,
                                             "Invalid UUID string for Asset ID",
                                             NoBytes, NoSizes), <<>>, db)
             ELSE IF ~bodyOk
             THEN FilenamesAnswered(Response(StatusBadRequest, "json", NoBytes, NoSizes),
                                    <<>>, db)
             ELSE setFilenames([i \in {id} |-> name], dbOk)

\* PATCH /assets/originalfilenames (server.go:1067-1095)
PatchAssetsOriginalFilenames ==
    /\ Idle
    /\ Len(calls) < MaxRequests
    /\ \E bodyOk \in BOOLEAN, dbOk \in BOOLEAN, payload \in FilenameMaps :
          /\ req' = [route |-> "patchAssetsOriginalFilenames", idOk |-> TRUE,
                     bodyOk |-> bodyOk, payload |-> payload]
          /\ IF ~bodyOk
             THEN FilenamesAnswered(Response(StatusBadRequest, "json", NoBytes, NoSizes),
                                    <<>>, db)
             ELSE IF DOMAIN payload = {}
             THEN FilenamesAnswered(Response(StatusBadRequest, "payload is empty",
                                             NoBytes, NoSizes), <<>>, db)
             ELSE setFilenames(payload, dbOk)

\* the handler has returned and the server takes the next request
FilenamesReturn ==
    /\ pc = "done"
    /\ pc' = "idle"
    /\ UNCHANGED <<serverStorageClient, db, objects, req, client, idx, resultData, calls,
                   response>>

\* the user owns one asset, which has no original filename yet; the handlers
\* use no storage client
InitFilenames ==
    /\ InitOriginals
    /\ ~serverStorageClient
    /\ objects = Universe

NextFilenames ==
    \/ PutAssetOriginalFilename
    \/ PatchAssetsOriginalFilenames
    \/ FilenamesReturn

SpecFilenames == InitFilenames /\ [][NextFilenames]_vars

-----------------------------------------------------------------------------
(* One request to any route, behind OIDCHandler *)

NextAuth ==
    \/ UnauthorizedAnyRoute
    \/ CreateAsset
    \/ PatchAssetsBegin
    \/ PatchAssetsCreate
    \/ PatchAssetsFinish

SpecAuth == Init /\ [][NextAuth]_vars

-----------------------------------------------------------------------------
(* s3Client.Delete on its own, over batches of locators of every shape *)

MaxLocators == 2

\* locators of objects, one whose URL does not parse, and one whose path has
\* a bucket and no key
DeleteLocators ==
    {Locator(Bucket1, KeyOriginal), Locator(Bucket1, KeyLow), Locator(Bucket2, KeyOriginal),
     Locator(Bucket1, <<Ctl>>), Host \o <<"/">> \o Bucket1}

\* one call of Delete (aws.go:94-131); resultData keeps what it returned, or
\* that it panicked
DeleteBatch ==
    /\ Idle
    /\ \E remotepaths \in SeqsUpTo(DeleteLocators, MaxLocators), perm \in Perms(Buckets),
          failAt \in 0..Cardinality(Buckets) :
       \E r \in {Delete(objects, remotepaths, perm, failAt)} :
          /\ req' = [route |-> "Delete", remotepaths |-> remotepaths]
          /\ calls' = r.calls
          /\ objects' = r.objects
          /\ resultData' = [err |-> r.err, panicked |-> r.panicked]
    /\ pc' = "done"
    /\ UNCHANGED <<serverStorageClient, db, client, idx, response>>

SpecDelete == Init /\ [][DeleteBatch]_vars

-----------------------------------------------------------------------------
Next ==
    \/ Return
    \/ Unauthorized
    \/ CreateAsset
    \/ PatchAssetsBegin
    \/ PatchAssetsCreate
    \/ PatchAssetsFinish

Spec == Init /\ [][Next]_vars

-----------------------------------------------------------------------------
(* Properties *)

\* the entries of the log with this operation
CallsOf(op) == SelectSeq(calls, LAMBDA c : c.op = op)

\* a little-endian byte sequence read back as a number
RECURSIVE DecodeUint(_)
DecodeUint(bytes) ==
    IF bytes = <<>> THEN 0 ELSE Head(bytes) + 256 * DecodeUint(Tail(bytes))

\* the size the specification gives for probed lengths o and l
ExpectedSize(o, l) ==
    (IF o > 131072 THEN o ELSE 131072) + (IF l > 131072 THEN l ELSE 131072)

\* the asset fails the validation of createSingleAsset
Invalid(asset) ==
    \/ asset.AssetID = <<>>
    \/ asset.RemotePath = <<>>
    \/ asset.Key = <<>>
    \/ asset.PixelWidth = 0
    \/ asset.PixelHeight = 0

\* entry i of the log is a CreateAsset call made after the two probes
ProbedCreate(i) ==
    /\ calls[i].op = "CreateAsset"
    /\ i > 1
    /\ calls[i - 1].op = "HeadObject"

\* C1: when an asset with an original path passes validation and both probes
\* succeed with lengths o and l, the size handed to the metadata store, the
\* size recorded, and the size reported to the caller (the eight bytes of
\* POST /assets, the entry of the PATCH /assets result) are all
\* max(o, 131072) + max(l, 131072).
C1_SizeIsFlooredSum ==
    /\ \A i \in 1..Len(calls) :
          ProbedCreate(i) =>
             /\ i > 2
             /\ calls[i - 2].op = "HeadObject"
             /\ calls[i].n = ExpectedSize(calls[i - 2].n, calls[i - 1].n)
             /\ (calls[i].ok /\ req.route = "patchAssets"
                   /\ \A j \in (i + 1)..Len(calls) :
                         ~(calls[j].op = "CreateAsset" /\ calls[j].ids = calls[i].ids))
                => resultData[calls[i].ids[1]] = ExpectedSize(calls[i - 2].n, calls[i - 1].n)
    /\ (pc = "done" /\ req.route = "createAsset" /\ response.status = 201
          /\ req.CREATE[1].RemotePathOrig # NoPath)
       => /\ Len(calls) > 2
          /\ ProbedCreate(Len(calls))
          /\ Len(response.bytes) = 8
          /\ DecodeUint(response.bytes)
                = ExpectedSize(calls[Len(calls) - 2].n, calls[Len(calls) - 1].n)
          /\ db[req.CREATE[1].AssetID].present
          /\ db[req.CREATE[1].AssetID].totalsize
                = ExpectedSize(calls[Len(calls) - 2].n, calls[Len(calls) - 1].n)
    /\ (pc = "done" /\ req.route = "patchAssets" /\ response.status = 200)
       => response.json = resultData

\* a created asset whose original is below the floor and whose low
\* representation is above it
C1_Witness ==
    /\ pc = "done"
    /\ req.route = "createAsset"
    /\ response.status = 201
    /\ Len(calls) > 2
    /\ ProbedCreate(Len(calls))
    /\ calls[Len(calls) - 2].n = 131071
    /\ calls[Len(calls) - 1].n = 131073
    /\ DecodeUint(response.bytes) = 131072 + 131073

\* C2: a request whose asset has an empty identifier, low path or key, or a
\* zero pixel dimension, is answered 400 with a message, and handling it
\* issues no probe and no metadata-store call and leaves records and objects
\* as they were; in POST /assets and in every item of a PATCH /assets list.
C2_InvalidRejectedBeforeAnyCall ==
    [][ /\ (/\ pc = "idle"
            /\ pc' = "done"
            /\ req'.route = "createAsset"
            /\ req'.bodyOk
            /\ client'.err = NoErr
            /\ client'.kind # "none"
            /\ Invalid(req'.CREATE[1]))
           => /\ response'.status = 400
              /\ response'.text # ""
              /\ response'.bytes = <<>>
              /\ \A i \in 1..Len(calls') : calls'[i].op = "AssumeRoleWithWebIdentity"
              /\ db' = db
              /\ objects' = objects
        /\ (/\ pc = "create"
            /\ idx <= Len(req.CREATE)
            /\ Invalid(req.CREATE[idx]))
           => /\ pc' = "done"
              /\ response'.status = 400
              /\ response'.text # ""
              /\ calls' = calls
              /\ db' = db
              /\ objects' = objects ]_vars

\* an asset with an original path and a zero width has been rejected
C2_Witness ==
    /\ pc = "done"
    /\ req.route = "createAsset"
    /\ req.bodyOk
    /\ client.kind = "server"
    /\ req.CREATE[1].PixelWidth = 0
    /\ req.CREATE[1].RemotePathOrig # NoPath
    /\ response.status = 400
    /\ CallsOf("HeadObject") = <<>>

\* the successful CreateAsset calls of the log
Created == SelectSeq(calls, LAMBDA c : c.op = "CreateAsset" /\ c.ok)

\* C3: the CREATE list is processed in order, one item at a time; while the
\* loop runs every item before the current one has been persisted; when item
\* k fails the answer is that item's failure (400 for a validation failure,
\* 500 otherwise), the items before k are persisted and stay so, and nothing
\* is probed or persisted for the items after k.
C3_CreateManyStopsAtFirstFailure ==
    (req.route = "patchAssets" /\ idx >= 1 /\ idx <= Len(req.CREATE) + 1)
    => /\ pc = "create" =>
             /\ Len(Created) = idx - 1
             /\ Len(CallsOf("CreateAsset")) = idx - 1
             /\ \A j \in 1..(idx - 1) : Created[j].ids = <<req.CREATE[j].AssetID>>
       /\ (pc = "done" /\ idx <= Len(req.CREATE)) =>
             /\ Len(Created) = idx - 1
             /\ \A j \in 1..(idx - 1) :
                   /\ Created[j].ids = <<req.CREATE[j].AssetID>>
                   /\ db[req.CREATE[j].AssetID].present
             /\ Len(CallsOf("CreateAsset")) <= idx
             /\ Len(CallsOf("HeadObject"))
                   <= 2 * (idx - 1) + (IF Invalid(req.CREATE[idx]) THEN 0 ELSE 2)
             /\ CallsOf("DeleteAssets") = <<>>
             /\ CallsOf("DeleteObjects") = <<>>
             /\ response.status = (IF Invalid(req.CREATE[idx]) THEN 400 ELSE 500)
             /\ response.json = NoSizes

\* the first item was persisted and the second was rejected
C3_Witness ==
    /\ pc = "done"
    /\ req.route = "patchAssets"
    /\ Len(req.CREATE) = 2
    /\ idx = 2
    /\ Invalid(req.CREATE[2])
    /\ response.status = 400
    /\ db[req.CREATE[1].AssetID].present
    /\ Len(Created) = 1

\* some entry of the log with this operation failed
SomeFailed(op) == \E i \in 1..Len(calls) : calls[i].op = op /\ ~calls[i].ok

\* C4: a storage deletion request is issued only after the metadata store has
\* removed the records; when the metadata deletion fails, no storage deletion
\* request is issued for the request and the caller is answered 500.
C4_StorageDeleteAfterMetadataDelete ==
    /\ \A i \in 1..Len(calls) :
          calls[i].op = "DeleteObjects"
          => \E j \in 1..(i - 1) : calls[j].op = "DeleteAssets" /\ calls[j].ok
    /\ SomeFailed("DeleteAssets")
       => /\ CallsOf("DeleteObjects") = <<>>
          /\ calls[Len(calls)].op = "DeleteAssets"
          /\ pc = "done"
          /\ response.status = 500

\* the metadata deletion of a recorded asset, whose objects exist, has failed
C4_Witness ==
    /\ pc = "done"
    /\ SomeFailed("DeleteAssets")
    /\ \E i \in 1..Len(req.DELETE) :
          /\ db[req.DELETE[i]].present
          /\ \E o \in objects : Locator(o.bucket, o.key) = db[req.DELETE[i]].remotePath
    /\ response.status = 500

\* C5: when the metadata deletion succeeded and a storage deletion request
\* then fails, the caller is answered 500 with no result, the records of the
\* request stay removed, and nothing is issued after the failed request (no
\* record is created again).
C5_MetadataDeleteNotRolledBack ==
    (pc = "done" /\ CallsOf("DeleteAssets") # <<>> /\ CallsOf("DeleteAssets")[1].ok)
    => /\ \A i \in 1..Len(req.DELETE) : ~db[req.DELETE[i]].present
       /\ \A i \in 1..Len(calls) :
             calls[i].op = "DeleteAssets"
             => \A j \in (i + 1)..Len(calls) : calls[j].op = "DeleteObjects"
       /\ SomeFailed("DeleteObjects")
          => /\ response.status = 500
             /\ response.json = NoSizes

\* the records are gone, the request for their objects failed, and the
\* objects still exist
C5_Witness ==
    /\ pc = "done"
    /\ CallsOf("DeleteAssets") # <<>>
    /\ CallsOf("DeleteAssets")[1].ok
    /\ Len(CallsOf("DeleteAssets")[1].keys) = 2
    /\ calls[Len(calls)].op = "DeleteObjects"
    /\ ~calls[Len(calls)].ok
    /\ \A i \in 1..Len(calls[Len(calls)].keys) :
          [bucket |-> calls[Len(calls)].bucket, key |-> calls[Len(calls)].keys[i]] \in objects
    /\ ~db[req.DELETE[1]].present
    /\ response.status = 500

\* the container and the key of a locator, read off the way locators are built
LocatorBucket(loc) ==
    CHOOSE b \in Buckets : \E k \in {KeyOriginal, KeyLow} : loc = Locator(b, k)

LocatorKey(loc) ==
    CHOOSE k \in {KeyOriginal, KeyLow} : \E b \in Buckets : loc = Locator(b, k)

\* the keys of the locators that lie in this container, in order
KeysInBucket(locs, b) ==
    [i \in 1..Len(SelectSeq(locs, LAMBDA l : LocatorBucket(l) = b)) |->
        LocatorKey(SelectSeq(locs, LAMBDA l : LocatorBucket(l) = b)[i])]

\* C6: after a delete answered 200, the storage service was asked to remove
\* exactly the locators the metadata store returned: one successful bulk
\* request for each container that holds one of them, with that container's
\* keys, and no other request.
C6_DeleteRequestsExactlyReturnedLocators ==
    (pc = "done" /\ req.route = "patchAssets" /\ response.status = 200 /\ Len(req.DELETE) > 0)
    => /\ Len(CallsOf("DeleteAssets")) = 1
       /\ \A i \in 1..Len(CallsOf("DeleteObjects")) :
             /\ CallsOf("DeleteObjects")[i].ok
             /\ CallsOf("DeleteObjects")[i].bucket \in Buckets
       /\ \A b \in Buckets :
             IF KeysInBucket(CallsOf("DeleteAssets")[1].keys, b) = <<>>
             THEN \A i \in 1..Len(CallsOf("DeleteObjects")) :
                     CallsOf("DeleteObjects")[i].bucket # b
             ELSE \E i \in 1..Len(CallsOf("DeleteObjects")) :
                     /\ CallsOf("DeleteObjects")[i].bucket = b
                     /\ CallsOf("DeleteObjects")[i].keys
                           = KeysInBucket(CallsOf("DeleteAssets")[1].keys, b)
                     /\ \A j \in 1..Len(CallsOf("DeleteObjects")) :
                           CallsOf("DeleteObjects")[j].bucket = b => j = i

\* an asset whose two objects lie in two containers has been deleted
C6_Witness ==
    /\ pc = "done"
    /\ response.status = 200
    /\ Len(CallsOf("DeleteAssets")) = 1
    /\ Len(CallsOf("DeleteAssets")[1].keys) = 2
    /\ Len(CallsOf("DeleteObjects")) = 2
    /\ CallsOf("DeleteObjects")[1].bucket # CallsOf("DeleteObjects")[2].bucket

\* C7: a failed bulk request is the last request of the deletion: none is
\* issued for the containers that remain, the caller is answered 500, and the
\* objects of the containers already deleted stay deleted.
C7_FirstFailingContainerAborts ==
    \A i \in 1..Len(calls) :
       (calls[i].op = "DeleteObjects" /\ ~calls[i].ok)
       => /\ i = Len(calls)
          /\ pc = "done"
          /\ response.status = 500
          /\ \A j \in 1..(i - 1) :
                calls[j].op = "DeleteObjects"
                => /\ calls[j].ok
                   /\ calls[j].bucket # calls[i].bucket
                   /\ \A k \in 1..Len(calls[j].keys) :
                         [bucket |-> calls[j].bucket, key |-> calls[j].keys[k]] \notin objects

\* the locators lie in two containers, the first request failed, and the
\* other container was never asked
C7_Witness ==
    /\ pc = "done"
    /\ Len(CallsOf("DeleteAssets")) = 1
    /\ \E b1, b2 \in Buckets :
          /\ b1 # b2
          /\ KeysInBucket(CallsOf("DeleteAssets")[1].keys, b1) # <<>>
          /\ KeysInBucket(CallsOf("DeleteAssets")[1].keys, b2) # <<>>
    /\ Len(CallsOf("DeleteObjects")) = 1
    /\ ~CallsOf("DeleteObjects")[1].ok
    /\ response.status = 500

\* the first container was deleted, the second request failed, and the first
\* container's object is still gone
C7_WitnessNoRollback ==
    /\ pc = "done"
    /\ Len(CallsOf("DeleteObjects")) = 2
    /\ CallsOf("DeleteObjects")[1].ok
    /\ ~CallsOf("DeleteObjects")[2].ok
    /\ [bucket |-> CallsOf("DeleteObjects")[1].bucket,
        key |-> CallsOf("DeleteObjects")[1].keys[1]] \notin objects

\* entry i of the log is the second probe of a size probe
SecondProbe(i) ==
    /\ i > 1
    /\ calls[i].op = "HeadObject"
    /\ calls[i - 1].op = "HeadObject"
    /\ (i > 2 => calls[i - 2].op # "HeadObject")

\* the size probe derives the low locator from the original one on the key
\* only: same container, key a_low for key a_original
ProbeDerivesLowKey ==
    \A i \in 1..Len(calls) :
       SecondProbe(i)
       => /\ calls[i].bucket = calls[i - 1].bucket
          /\ calls[i - 1].keys = <<(<<"a">> \o Str_original)>>
             => calls[i].keys = <<(<<"a">> \o Str_low)>>

\* C8 as stated: the size probe derives the low locator on the key only, and
\* the delete path applies the same derivation, so that a bulk request that
\* names the key a_original of a container names its key a_low as well.
C8_DerivationAppliedByBoth ==
    /\ ProbeDerivesLowKey
    /\ \A i \in 1..Len(calls) :
          calls[i].op = "DeleteObjects"
          => \A k \in 1..Len(calls[i].keys) :
                calls[i].keys[k] = <<"a">> \o Str_original
                => \E m \in 1..Len(calls[i].keys) : calls[i].keys[m] = <<"a">> \o Str_low

\* C8, amended: the size probe derives the low locator by replacing
\* _original by _low in the key, the container unchanged even when its name
\* contains _original; the delete path derives nothing: every key it asks a
\* container to remove is the key of a locator the metadata store returned
\* for that container.
C8_DerivationAppliedByFilesizesOnly ==
    /\ ProbeDerivesLowKey
    /\ \A i \in 1..Len(calls) :
          calls[i].op = "DeleteObjects"
          => /\ CallsOf("DeleteAssets") # <<>>
             /\ \A k \in 1..Len(calls[i].keys) :
                   \E m \in 1..Len(CallsOf("DeleteAssets")[1].keys) :
                      CallsOf("DeleteAssets")[1].keys[m]
                         = Host \o <<"/">> \o calls[i].bucket \o <<"/">> \o calls[i].keys[k]

\* an original in the container b_original was probed, and later an asset
\* with its original in one container and its low representation in another
\* was deleted: the original's container was asked for a_original alone
C8_Witness ==
    /\ pc = "done"
    /\ \E i \in 1..Len(calls) :
          /\ SecondProbe(i)
          /\ calls[i].bucket = <<"b">> \o Str_original
          /\ calls[i].keys = <<(<<"a">> \o Str_low)>>
    /\ \E i \in 1..Len(calls) :
          /\ calls[i].op = "DeleteObjects"
          /\ calls[i].keys = <<(<<"a">> \o Str_original)>>

\* C9: a size probe yields sizes only when both objects exist and both
\* reported lengths are non-negative: a probe that is refused, or answered
\* with a negative length, is the last call of the request, which is answered
\* 500 with no size; a size reaches the metadata store only after two probes
\* that were answered with non-negative lengths.
C9_SizesOnlyWhenBothExistAndNonNegative ==
    /\ \A i \in 1..Len(calls) :
          calls[i].op = "HeadObject"
          => \/ /\ calls[i].ok
                /\ calls[i].n >= 0
                /\ CallsOf("DeleteObjects") = <<>>
                   => [bucket |-> calls[i].bucket, key |-> calls[i].keys[1]] \in objects
             \/ /\ i = Len(calls)
                /\ pc = "done"
                /\ response.status = 500
                /\ response.bytes = <<>>
                /\ response.json = NoSizes
    /\ \A i \in 1..Len(calls) :
          (calls[i].op = "CreateAsset" /\ calls[i].n # -1)
          => /\ i > 2
             /\ SecondProbe(i - 1)
             /\ calls[i - 1].ok /\ calls[i - 1].n >= 0
             /\ calls[i - 2].ok /\ calls[i - 2].n >= 0

\* the low representation exists and its length was reported negative
C9_Witness ==
    /\ pc = "done"
    /\ Len(calls) > 1
    /\ SecondProbe(Len(calls))
    /\ calls[Len(calls)].ok
    /\ calls[Len(calls)].n < 0
    /\ [bucket |-> calls[Len(calls)].bucket, key |-> calls[Len(calls)].keys[1]] \in objects
    /\ response.status = 500

\* the low representation does not exist
C9_WitnessMissing ==
    /\ pc = "done"
    /\ Len(calls) > 1
    /\ SecondProbe(Len(calls))
    /\ ~calls[Len(calls)].ok
    /\ [bucket |-> calls[Len(calls)].bucket, key |-> calls[Len(calls)].keys[1]] \notin objects
    /\ response.status = 500

\* C10: with a service-wide client configured, getStorageClient returns that
\* client, without error, for a request with any Authorization header, and
\* performs no federation exchange.
C10_ServerClientForEveryRequest ==
    (pc = "done" /\ serverStorageClient)
    => /\ client.kind = "server"
       /\ client.err = NoErr
       /\ calls = <<>>

\* a request without a token was given the service-wide client
C10_Witness ==
    /\ pc = "done"
    /\ serverStorageClient
    /\ req.route = "resolve"
    /\ RawOIDCTokenFromHeader(req.header).err # NoErr
    /\ client.kind = "server"

\* the header carries a bearer token: a prefix that reads "bearer" in any
\* case, one more character, and at least one character of token
HasBearerToken(header) ==
    /\ Len(header) > 7
    /\ \E p \in HeaderPrefixes :
          /\ p # <<"B", "a", "s", "i", "c">>
          /\ \A i \in 1..6 : header[i] = p[i]

\* C11: without a service-wide client, getStorageClient fails without any
\* federation exchange when the request carries no bearer token, and fails
\* when the exchange it attempts for a token is refused; in both cases no
\* client is returned, the handler answers 500 and returns, and no storage
\* or metadata-store call is made.
C11_ResolveFailsWithoutBackend ==
    (pc # "idle" /\ ~serverStorageClient)
    => /\ ~HasBearerToken(req.header)
          => /\ client.kind = "none"
             /\ client.err = "unable to extract token from request"
             /\ calls = <<>>
       /\ HasBearerToken(req.header)
          => /\ Len(calls) = 1
             /\ calls[1].op = "AssumeRoleWithWebIdentity"
             /\ ~calls[1].ok => (client.kind = "none" /\ client.err # NoErr)
             /\ calls[1].ok => (client.kind = "sts" /\ client.err = NoErr)
       /\ client.err # NoErr
          => /\ pc # "resolved"
             /\ db = [id \in AssetIDs |-> NoAsset]
             /\ objects = Universe
             /\ pc = "answered"
                => /\ response.status = 500
                   /\ response.text = ""
                   /\ response.bytes = <<>>

\* the exchange for a token was refused and the handler has answered
C11_Witness ==
    /\ pc = "answered"
    /\ ~serverStorageClient
    /\ HasBearerToken(req.header)
    /\ Len(calls) = 1
    /\ ~calls[1].ok
    /\ client.kind = "none"
    /\ response.status = 500

\* a request without a token has been answered, and no exchange was attempted
C11_WitnessMissing ==
    /\ pc = "answered"
    /\ ~serverStorageClient
    /\ req.header = <<"B", "e", "a", "r", "e", "r", " ">>
    /\ calls = <<>>
    /\ response.status = 500

\* C12: a request to share a non-empty list of asset ids with a number of
\* wrapped keys other than the number of ids (none, fewer, more) is answered
\* 400 with a message, and no metadata-store call, lookup or notification is
\* made; every ShareAssets call carries one key per asset id.
C12_ShareNeedsOneKeyPerAsset ==
    /\ (/\ pc = "done"
        /\ req.route = "amendGroupSharedAssets"
        /\ req.groupOk
        /\ req.bodyOk
        /\ req.flag
        /\ Len(req.AssetIDs) > 0
        /\ Len(req.AssetKeys) # Len(req.AssetIDs))
       => /\ response.status = 400
          /\ response.text # ""
          /\ calls = <<>>
    /\ \A i \in 1..Len(calls) :
          calls[i].op = "ShareAssets"
          => /\ Len(calls[i].ids) > 0
             /\ Len(calls[i].keys) = Len(calls[i].ids)

\* two asset ids were to be shared with one key
C12_Witness ==
    /\ pc = "done"
    /\ req.route = "amendGroupSharedAssets"
    /\ req.groupOk
    /\ req.bodyOk
    /\ req.flag
    /\ Len(req.AssetIDs) = 2
    /\ Len(req.AssetKeys) = 1
    /\ response.status = 400
    /\ calls = <<>>

\* the request reached the mutation of the metadata store, which is the
\* first call of a group handler
Mutated ==
    /\ pc = "done"
    /\ req.route \in {"joinGroup", "addUsersToGroup", "leaveGroup", "amendGroupAssets",
                      "amendGroupSharedAssets"}
    /\ calls # <<>>

\* the status that tells the caller of success
SuccessStatus == IF req.route = "joinGroup" THEN 201 ELSE 200

\* C13: the answer of a membership or sharing request is decided by the
\* mutation alone: after a successful mutation the caller is answered with
\* the success status, whatever the lookup and the notification that may
\* follow returned.
C13_OutcomeDecidedByMutation ==
    (Mutated /\ calls[1].ok)
    => /\ response.status = SuccessStatus
       /\ response.text = ""

\* a join whose lookup failed and whose notification failed was answered 201
C13_Witness ==
    /\ Mutated
    /\ req.route = "joinGroup"
    /\ calls[1].ok
    /\ Len(calls) = 3
    /\ calls[2].op = "GetUsersInGroup"
    /\ ~calls[2].ok
    /\ calls[3].op = "Notify"
    /\ ~calls[3].ok
    /\ response.status = 201

\* the event kind of each operation
KindOf(route) ==
    CASE route = "joinGroup" -> "UserJoinedGroup"
      [] route = "addUsersToGroup" -> "GroupInvite"
      [] route = "leaveGroup" -> "UserLeftGroup"
      [] route = "amendGroupAssets" -> "AssetsChangedForGroup"
      [] OTHER -> "AssetsAddedToGroupByUser"

\* after the mutation: a lookup, then, unless it found no data, one
\* notification of the users it returned, of this kind
LookupThenNotify(kind) ==
    /\ Len(calls) >= 2
    /\ calls[2].op = "GetUsersInGroup"
    /\ IF calls[2].keys = <<"EOF">>
       THEN Len(calls) = 2
       ELSE /\ Len(calls) = 3
            /\ calls[3].op = "Notify"
            /\ calls[3].ids = calls[2].ids
            /\ calls[3].keys = <<kind>>

\* C14 as stated: after every successful mutation of the five operations the
\* members are looked up and, unless there is no data, exactly they are
\* notified, with the operation's event kind.
C14_EveryMutationNotifiesMembers ==
    (Mutated /\ calls[1].ok) => LookupThenNotify(KindOf(req.route))

\* C14, amended: joinGroup, leaveGroup, the removal of assets, sharing and
\* unsharing look the members up and, unless the lookup found no data,
\* notify exactly the users it returned, with the kinds join, leave,
\* assets-changed, assets-shared and (for unsharing) assets-changed;
\* addUsersToGroup makes no lookup and notifies the users named in the
\* request with the invite kind; the addition of assets makes no lookup and
\* notifies nobody.
C14_NotificationPerOperation ==
    (Mutated /\ calls[1].ok)
    => CASE req.route = "addUsersToGroup" ->
               /\ Len(calls) = 2
               /\ calls[2].op = "Notify"
               /\ calls[2].ids = req.Users
               /\ calls[2].keys = <<"GroupInvite">>
         [] req.route = "amendGroupAssets" /\ req.flag -> Len(calls) = 1
         [] req.route = "amendGroupSharedAssets" /\ ~req.flag ->
               LookupThenNotify("AssetsChangedForGroup")
         [] OTHER -> LookupThenNotify(KindOf(req.route))

\* two members were notified that assets were shared
C14_Witness ==
    /\ Mutated
    /\ req.route = "amendGroupSharedAssets"
    /\ req.flag
    /\ calls[1].ok
    /\ Len(calls) = 3
    /\ calls[3].op = "Notify"
    /\ calls[3].ids = <<User2, User1>>
    /\ calls[3].keys = <<"AssetsAddedToGroupByUser">>

\* assets were added to a group and nobody was notified
C14_WitnessAdd ==
    /\ Mutated
    /\ req.route = "amendGroupAssets"
    /\ req.flag
    /\ calls[1].ok
    /\ Len(calls) = 1
    /\ response.status = 200

\* C15: when the mutation fails the caller is answered 500, and no lookup
\* and no notification is made: the failed mutation is the only call.
C15_FailedMutationNotifiesNobody ==
    (Mutated /\ ~calls[1].ok)
    => /\ response.status = 500
       /\ Len(calls) = 1

\* leaving a group failed
C15_Witness ==
    /\ Mutated
    /\ req.route = "leaveGroup"
    /\ calls[1].op = "LeaveGroup"
    /\ ~calls[1].ok
    /\ response.status = 500

\* C16: when the lookup that follows a successful mutation returns io.EOF,
\* the request is answered with the success status and Notify is not called.
C16_NoDataSkipsNotification ==
    \A i \in 1..Len(calls) :
       (calls[i].op = "GetUsersInGroup" /\ calls[i].keys = <<"EOF">>)
       => /\ pc = "done"
          /\ i = 2
          /\ calls[1].ok
          /\ response.status = SuccessStatus
          /\ \A j \in 1..Len(calls) : calls[j].op # "Notify"

\* assets were unshared and the lookup found no data
C16_Witness ==
    /\ Mutated
    /\ req.route = "amendGroupSharedAssets"
    /\ ~req.flag
    /\ Len(calls) = 2
    /\ calls[2].op = "GetUsersInGroup"
    /\ calls[2].keys = <<"EOF">>
    /\ response.status = 200

-----------------------------------------------------------------------------
(* Properties of the handlers that attach original paths *)

\* some probe of the log failed or gave a negative length
ProbeFailed ==
    \E i \in 1..Len(calls) :
        calls[i].op = "HeadObject" /\ (~calls[i].ok \/ calls[i].n < 0)

\* some metadata update of the log failed
UpdateFailed ==
    \E i \in 1..Len(calls) : calls[i].op = "AddPathForOriginalAsset" /\ ~calls[i].ok

Answered(route) == pc = "done" /\ req.route = route

\* C17: when the probe of the path given to putAssetRemotePathOriginal fails,
\* the caller gets a server fault, AddPathForOriginalAsset is not called and
\* no asset has an original path or a size recorded.
C17_FailedProbeRecordsNothing ==
    (Answered("putAssetRemotePathOriginal") /\ ProbeFailed)
        => /\ response.status = StatusInternalServerError
           /\ CallsOf("AddPathForOriginalAsset") = <<>>
           /\ \A id \in AssetIDs :
                 db[id].present => db[id].remotePathOrig = NoPath /\ db[id].totalsize = NoSize

\* the probe failed, and the asset has the path and twice the minimum length
C17_Witness ==
    /\ Answered("putAssetRemotePathOriginal")
    /\ ProbeFailed
    /\ response.status = StatusInternalServerError
    /\ Len(CallsOf("AddPathForOriginalAsset")) = 1
    /\ db[Id1].remotePathOrig = req.Remotepathorig
    /\ db[Id1].totalsize = 2 * MinLength

\* C18: when the probe or the metadata update of an entry given to
\* patchAssetsRemoteOriginalPaths fails, no later entry is processed and the
\* caller gets a server fault.
C18_FailedEntryReportsFailure ==
    (Answered("patchAssetsRemoteOriginalPaths") /\ (ProbeFailed \/ UpdateFailed))
        => /\ response.status = StatusInternalServerError
           /\ ~calls[Len(calls)].ok \/ calls[Len(calls)].n < 0

\* an entry failed after another was attached, and the caller is told that
\* all went well, with the size of the first
C18_Witness ==
    /\ Answered("patchAssetsRemoteOriginalPaths")
    /\ UpdateFailed
    /\ ~calls[Len(calls)].ok
    /\ response.status = StatusOK
    /\ \E id \in AssetIDs : response.json[id] # NoSize

-----------------------------------------------------------------------------
(* Properties of the request deadline *)

\* C19: once the deadline of a request has passed, the handler issues no
\* further call to the metadata store or the storage service, and the caller
\* is answered with the timeout status.
C19_DeadlineAbortsRequest ==
    /\ \A i \in 1..Len(calls) : calls[i].op = "DeadlineExceeded" => i = Len(calls)
    /\ (pc = "answered" /\ DeadlinePassed) => response.status = StatusGatewayTimeout

\* the deadline passed before deleteAssets, which removed the records and the
\* objects all the same, and the caller was told that all went well
C19_Witness ==
    /\ pc = "answered"
    /\ response.status = StatusOK
    /\ \E i, j, k \in 1..Len(calls) :
          /\ i < j
          /\ j < k
          /\ calls[i].op = "DeadlineExceeded"
          /\ calls[j].op = "DeleteAssets"
          /\ calls[k].op = "DeleteObjects"
          /\ calls[k].ok

-----------------------------------------------------------------------------
(* Properties of the query handlers *)

\* a query handler has asked the metadata store and answered
Queried ==
    /\ pc = "done"
    /\ Len(calls) = 1
    /\ req.route \in {q[1] : q \in SwitchQueries}
                         \cup {"getUsersFromAddressable", "getGroupUsers", "ValidateIDs"}

\* C20: every query handler answers a result of the metadata store with 200
\* and the data, the io.EOF of the store with 204, and any other error of the
\* store with 500.
C20_OutcomesMappedDistinctly ==
    Queried =>
        /\ calls[1].keys = <<NoErr>>
              => response.status = StatusOK /\ response.json = Marshal(calls[1].ids)
        /\ calls[1].keys = <<"EOF">> => response.status = StatusNoContent
        /\ calls[1].keys = <<"database">> => response.status = StatusInternalServerError

\* the query of getGroupUsers failed and the caller is answered 200 with null
C20_Witness ==
    /\ Queried
    /\ req.route = "getGroupUsers"
    /\ calls[1].keys = <<"database">>
    /\ calls[1].ids = <<>>
    /\ response.status = StatusOK
    /\ response.json = <<"null">>

-----------------------------------------------------------------------------
(* Properties of contact resolution *)

\* getUsersFromAddressable has answered a payload that decodes and whose three
\* lists are empty
EmptyResolved ==
    /\ pc = "done"
    /\ req.route = "getUsersFromAddressable"
    /\ req.bodyOk
    /\ req.empty

-----------------------------------------------------------------------------
(* Properties of createUser and updateUserContact *)

\* the identity provider gave a value for key k of IdentityKeys: the token
\* holds a list under it that starts with a string that is not empty
Supplied(k) ==
    /\ req.identities[IdentityKeys[k]].list
    /\ req.identities[IdentityKeys[k]].elems # <<>>
    /\ Head(req.identities[IdentityKeys[k]].elems).str
    /\ Head(req.identities[IdentityKeys[k]].elems).val # <<>>

\* C22: each of the three contact fields createUser and updateUserContact
\* pass to the metadata store is nil when the token gives no value for it, and
\* otherwise the digest of the value the token gives, which is not the value.
C22_ContactFieldsAreDigests ==
    \A i \in 1..Len(calls) :
        calls[i].op \in {"CreateUser", "UpdateUserContact"} =>
            \A k \in 1..3 :
                /\ ~Supplied(k) => calls[i].keys[k] = NoPath
                /\ Supplied(k) =>
                      /\ calls[i].keys[k] = shasum256(Head(req.identities[IdentityKeys[k]].elems).val)
                      /\ calls[i].keys[k] # Head(req.identities[IdentityKeys[k]].elems).val

\* createUser stored a user whose token gives a phone number and no email
C22_Witness ==
    /\ pc = "done"
    /\ req.route = "createUser"
    /\ Len(calls) = 1
    /\ calls[1].ok
    /\ Supplied(1)
    /\ ~Supplied(2)
    /\ calls[1].keys[1] = <<"sha256", "p">>
    /\ calls[1].keys[2] = NoPath
    /\ response.status = StatusCreated

\* updateUserContact passed on the digest of the email of the token
C22_WitnessUpdate ==
    /\ pc = "done"
    /\ req.route = "updateUserContact"
    /\ Len(calls) = 1
    /\ Supplied(2)
    /\ calls[1].keys[2] = <<"sha256", "e">>

-----------------------------------------------------------------------------
(* Properties of the filename handlers *)

\* this step handles the request that the step before the last handled, which
\* succeeded, again, and the store does not fail
SamePatchAgain ==
    /\ pc = "idle"
    /\ pc' = "done"
    /\ req' = req
    /\ response.status = StatusOK
    /\ Len(calls') = Len(calls) + 1
    /\ calls'[Len(calls')].ok

-----------------------------------------------------------------------------
(* Further properties of createAsset and patchAssets *)

\* createAsset has answered 201
CreatedOne == Answered("createAsset") /\ response.status = StatusCreated

\* C24: a createAsset answered 201 carries the eight bytes of a size exactly
\* when the asset has an original path; without one there is no probe, and
\* the asset is recorded without a size.
C24_SizeReturnedIffOriginalGiven ==
    CreatedOne =>
        /\ response.bytes # NoBytes <=> req.CREATE[1].RemotePathOrig # NoPath
        /\ req.CREATE[1].RemotePathOrig = NoPath =>
              /\ CallsOf("HeadObject") = <<>>
              /\ Len(CallsOf("CreateAsset")) = 1
              /\ CallsOf("CreateAsset")[1].n = NoSize
              /\ db[req.CREATE[1].AssetID].present
              /\ db[req.CREATE[1].AssetID].totalsize = NoSize

\* an asset without an original was created: no bytes, no probe, no size
C24_Witness ==
    /\ CreatedOne
    /\ req.CREATE[1].RemotePathOrig = NoPath
    /\ response.bytes = NoBytes
    /\ CallsOf("HeadObject") = <<>>
    /\ db[req.CREATE[1].AssetID].totalsize = NoSize

\* an asset with an original was created, and its size returned
C24_WitnessWithOriginal ==
    /\ CreatedOne
    /\ req.CREATE[1].RemotePathOrig # NoPath
    /\ Len(response.bytes) = 8
    /\ DecodeUint(response.bytes) = db[req.CREATE[1].AssetID].totalsize


\* some call of the log failed: a probe, a deletion, a call of the metadata
\* store or the exchange of the token
DownstreamFault ==
    \/ ProbeFailed
    \/ \E i \in 1..Len(calls) : ~calls[i].ok

\* the messages of the validation errors of createAsset and patchAssets
ValidationMessages ==
    {"Unable to decode JSON payload", "One of the Int args has a value of 0",
     "AssetIDs is empty"} \cup {invalidArgError(n) : n \in 0..2}

\* C25: createAsset and patchAssets (creations and deletions) answer every
\* fault of a call they depend on with 500 and the one response without body,
\* whatever the fault, and a validation error with 400 and its message.
C25_FaultsAnsweredWithoutDetail ==
    (Answered("createAsset") \/ Answered("patchAssets")) =>
        /\ DownstreamFault => response = ServerFault
        /\ response.status = StatusInternalServerError => response = ServerFault
        /\ response.status = StatusBadRequest => response.text \in ValidationMessages

\* a deletion failed in the storage service and the answer is the bare 500
C25_Witness ==
    /\ Answered("patchAssets")
    /\ Len(calls) > 0
    /\ calls[Len(calls)].op = "DeleteObjects"
    /\ ~calls[Len(calls)].ok
    /\ response = ServerFault

\* a probe failed in createAsset and the answer is the bare 500
C25_WitnessProbe ==
    /\ Answered("createAsset")
    /\ ProbeFailed
    /\ response = ServerFault

\* an asset without key was refused with the message of the validation
C25_WitnessValidation ==
    /\ Answered("createAsset")
    /\ response.status = StatusBadRequest
    /\ response.text = invalidArgError(2)
    /\ calls = <<>>

-----------------------------------------------------------------------------
(* Properties of every handler *)

\* entry i of the log is a call that failed
FailedCall(i) ==
    \/ ~calls[i].ok
    \/ calls[i].op = "HeadObject" /\ calls[i].n < 0

\* C26: a handler that has answered a failed call with a failure makes no
\* further call: a failed call is the last of the log of its request.
C26_NoCallAfterReportedFailure ==
    \A i \in 1..Len(calls) : FailedCall(i) => i = Len(calls)

\* putAssetRemotePathOriginal wrote 500 for a failed probe and then updated
\* the metadata store
C26_Witness ==
    /\ Answered("putAssetRemotePathOriginal")
    /\ Len(calls) >= 2
    /\ calls[Len(calls) - 1].op = "HeadObject"
    /\ FailedCall(Len(calls) - 1)
    /\ calls[Len(calls)].op = "AddPathForOriginalAsset"
    /\ calls[Len(calls)].ok

-----------------------------------------------------------------------------
(* Order of creation and deletion in patchAssets *)

\* entry i of the log belongs to the deletion of a request
DeletionCall(i) == calls[i].op \in {"DeleteAssets", "DeleteObjects"}

\* C27: in a patchAssets request, every call of the deletion comes after all
\* calls of the creations, and only when each asset of the create list was
\* recorded; after a failed creation the request deletes nothing.
C27_DeletionOnlyAfterAllCreated ==
    req.route = "patchAssets" =>
        \A i \in 1..Len(calls) :
            DeletionCall(i) =>
                /\ Len(Created) = Len(req.CREATE)
                /\ \A j \in 1..Len(calls) :
                      calls[j].op \in {"CreateAsset", "HeadObject"} => j < i
                /\ \A j \in 1..(i - 1) : ~FailedCall(j)

\* a request with both lists whose creation was recorded and whose deletion
\* then removed objects
C27_Witness ==
    /\ Answered("patchAssets")
    /\ req.CREATE # <<>>
    /\ req.DELETE # <<>>
    /\ \E i, j, k \in 1..Len(calls) :
          /\ i < j
          /\ j < k
          /\ calls[i].op = "CreateAsset"
          /\ calls[i].ok
          /\ calls[j].op = "DeleteAssets"
          /\ calls[k].op = "DeleteObjects"
    /\ response.status = StatusOK

\* a request with both lists whose creation failed: nothing was deleted
C27_WitnessFailedCreation ==
    /\ Answered("patchAssets")
    /\ req.DELETE # <<>>
    /\ \E i \in 1..Len(calls) : calls[i].op = "CreateAsset" /\ ~calls[i].ok
    /\ \A i \in 1..Len(calls) : ~DeletionCall(i)
    /\ response = ServerFault

-----------------------------------------------------------------------------
(* Properties of OIDCHandler *)

\* C28: a request whose header carries no bearer token, or whose token is not
\* verified, is answered 401 with the error by OIDCHandler on every route, and
\* no call is made and nothing recorded for it; a handler runs only for a
\* request with a bearer token.
C28_UnauthenticatedNeverServed ==
    (pc # "idle" /\ (~HasBearerToken(req.header) \/ response.status = StatusUnauthorized))
        => /\ response.status = StatusUnauthorized
           /\ response.text # ""
           /\ calls = <<>>
           /\ client = NoClient
           /\ db = [id \in AssetIDs |-> NoAsset]
           /\ objects \in StoresAtStart

\* a request to a route of the groups whose token was not verified
C28_Witness ==
    /\ pc = "done"
    /\ req.route = "getGroups"
    /\ HasBearerToken(req.header)
    /\ response.status = StatusUnauthorized
    /\ response.text = "oidc: verification failed"
    /\ calls = <<>>

\* a request to patchAssets without Authorization header
C28_WitnessNoHeader ==
    /\ pc = "done"
    /\ req.route = "patchAssets"
    /\ req.header = <<>>
    /\ response.status = StatusUnauthorized
    /\ calls = <<>>

-----------------------------------------------------------------------------
(* Properties of s3Client.Delete on its own *)

\* Delete has returned or panicked for a batch with a locator that is not the
\* URL of a bucket and a key
Unparsed ==
    /\ pc = "done"
    /\ req.route = "Delete"
    /\ \E i \in 1..Len(req.remotepaths) :
          \A b \in Buckets, k \in {KeyOriginal, KeyLow} : req.remotepaths[i] # Locator(b, k)

\* C29: for a batch with a locator that does not parse, Delete returns an
\* error, having issued no DeleteObjects request, so that the object store is
\* as it was.
C29_UnparsableBatchReturnsError ==
    Unparsed =>
        /\ resultData.err # NoErr
        /\ ~resultData.panicked
        /\ calls = <<>>
        /\ objects \in StoresAtStart

\* a batch of a good locator and one without key: Delete panicked, returning
\* no error, before any request
C29_Witness ==
    /\ Unparsed
    /\ Len(req.remotepaths) = 2
    /\ req.remotepaths[1] = Locator(Bucket1, KeyLow)
    /\ resultData.panicked
    /\ resultData.err = NoErr
    /\ calls = <<>>

\* what does hold of such a batch: Delete fails, by an error or by a panic,
\* before any request
UnparsableBatchIssuesNoRequest ==
    Unparsed =>
        /\ resultData.err # NoErr \/ resultData.panicked
        /\ calls = <<>>
        /\ objects \in StoresAtStart

====
